---- MODULE Spec2Model ----
(***************************************************************************)
(* Bodyboard GPX/CSV viewer, wave detection v2.                            *)
(*                                                                         *)
(* Numbers.  Speeds are whole km/h and times whole seconds.  Distances are *)
(* whole multiples of 1/36 m, the distance covered in one second at        *)
(* 0.1 km/h, so that d/dt*3.6 km/h is d/(10*dt) in these units: 3600 is    *)
(* 100 m.  A point lies on one meridian: lat is its position along it, so  *)
(* the great-circle distance of two points is |b.lat-a.lat| and the        *)
(* forward azimuth is 0 (north, or no movement) or 180 (south).            *)
(* JavaScript's NaN is the value NaN below; every test the source makes on *)
(* a value that may be NaN is written with IsFinite, as in the source.     *)
(* Quantities the source computes with a square root or a logarithm are    *)
(* kept as exact rationals and compared by cross-multiplication.           *)
(***************************************************************************)
EXTENDS Integers, Sequences, FiniteSets, TLC

VARIABLES
  points,         \* [{lat, time}]
  segments,       \* [{distM, dtS, speedKmh, bearingDeg}]
  stats,          \* Null or {distM, durationS, maxKmh}
  waves,          \* enriched waves of the last detection run
  autoThreshold,  \* NaN (null) or the suggested threshold
  ui,             \* values of the inputs: threshold, minDuration, ...
  enabled,        \* setEnabled(loaded): controls of a loaded track
  pending,        \* file loads awaiting file.text()
  wavesEmpty,     \* the note of the wave table: {display, text, ignored}
  tableOptions,   \* options of the last updateWaveTable call, or Null
  enriched,       \* runWaveDetection: the enriched waves of the last run
  opts,           \* detectWavesV2: the options of the running call
  local,          \* detectWavesV2: local statistics, or Null in fixed mode
  pc,             \* detectWavesV2: "idle", "loop" or "done"
  i,              \* detectWavesV2: loop index
  cur,            \* detectWavesV2: active candidate or Null
  found,          \* detectWavesV2: emitted candidates
  timeOver,       \* detectWavesV2: time accumulated on the candidate
  timeUnderPeak,  \* detectWavesV2: grace timer
  detected,       \* detectWavesV2: returned list (stable)
  run,            \* number of the detection run on this track
  prevDetected,   \* list returned by the previous run on this track
  call,           \* a function under test and its arguments, or Null
  ret             \* the value the function returned, or Null

appVars == <<points, segments, stats, waves, autoThreshold, ui, enabled, pending,
            wavesEmpty, tableOptions, enriched>>
detVars == <<opts, local, pc, i, cur, found, timeOver, timeUnderPeak, detected, run, prevDetected>>
fnVars == <<call, ret>>
vars == <<points, segments, stats, waves, autoThreshold, ui, enabled, pending,
          wavesEmpty, tableOptions, enriched, call, ret,
          opts, local, pc, i, cur, found, timeOver, timeUnderPeak, detected, run, prevDetected>>

----------------------------------------------------------------------------
(* Bounds *)

MaxSegs == 3

----------------------------------------------------------------------------
(* Values *)

NaN == -999999

Null == [null |-> TRUE]

IsFinite(v) == v # NaN

Max(a, b) == IF a >= b THEN a ELSE b

Min(a, b) == IF a <= b THEN a ELSE b

Abs(a) == IF a < 0 THEN -a ELSE a

clamp(v, lo, hi) == Max(lo, Min(hi, v))

RECURSIVE SumSeq(_)
SumSeq(s) == IF s = <<>> THEN 0 ELSE Head(s) + SumSeq(Tail(s))

----------------------------------------------------------------------------
(* Geometry and kinematics *)

haversineDistanceM(a, b) == Abs(b.lat - a.lat)

bearingDegrees(a, b) == IF b.lat < a.lat THEN 180 ELSE 0

\* variant: the sign of the elapsed time is not tested
SpeedKmh_NoSignTest(d, dt) == IF IsFinite(dt) /\ dt # 0 THEN d \div (dt * 10) ELSE 0

\* d/dt in m/s times 3.6, d in 1/36 m; exact on the tracks of the model
SpeedKmh(d, dt) == IF IsFinite(dt) /\ dt > 0 THEN d \div (dt * 10) ELSE 0

MakeSegment(a, b) ==
  LET d  == haversineDistanceM(a, b)
      tA == a.time
      tB == b.time
      dt == IF IsFinite(tA) /\ IsFinite(tB) THEN tB - tA ELSE NaN
  IN [a |-> a.lat, b |-> b.lat,
      distM |-> d, dtS |-> dt, speedKmh |-> SpeedKmh(d, dt),
      bearingDeg |-> IF IsFinite(d) THEN bearingDegrees(a, b) ELSE NaN]

ComputeSegments(pts) ==
  [k \in 1..(IF Len(pts) = 0 THEN 0 ELSE Len(pts) - 1) |-> MakeSegment(pts[k], pts[k + 1])]

ComputeStats(segs) ==
  [distM     |-> SumSeq([k \in 1..Len(segs) |->
                   IF IsFinite(segs[k].distM) THEN segs[k].distM ELSE 0]),
   durationS |-> SumSeq([k \in 1..Len(segs) |->
                   IF IsFinite(segs[k].dtS) /\ segs[k].dtS > 0 THEN segs[k].dtS ELSE 0]),
   maxKmh    |-> LET RECURSIVE mx(_, _)
                     mx(k, m) == IF k > Len(segs) THEN m
                                 ELSE mx(k + 1, IF segs[k].speedKmh > m THEN segs[k].speedKmh ELSE m)
                 IN mx(1, 0)]

----------------------------------------------------------------------------
(* Local statistics window.  A statistic is {med2, varNum, varDen}: the    *)
(* median is med2/2 and the standard deviation sqrt(varNum/varDen).        *)

FiniteDt(s) == IF IsFinite(s.dtS) THEN s.dtS ELSE 0

\* variant: the window is shrunk as soon as it spans winSec
RECURSIVE ShrinkWindow_AtWinSec(_, _, _, _, _)
ShrinkWindow_AtWinSec(segs, winSec, left, right, timeSpan) ==
  IF timeSpan >= winSec /\ left < right
  THEN ShrinkWindow_AtWinSec(segs, winSec, left + 1, right, timeSpan - FiniteDt(segs[left + 1]))
  ELSE [left |-> left, timeSpan |-> timeSpan]

\* while (timeSpan > winSec && left < right)
RECURSIVE ShrinkWindow(_, _, _, _, _)
ShrinkWindow(segs, winSec, left, right, timeSpan) ==
  IF timeSpan > winSec /\ left < right
  THEN ShrinkWindow(segs, winSec, left + 1, right, timeSpan - FiniteDt(segs[left + 1]))
  ELSE [left |-> left, timeSpan |-> timeSpan]

\* variant: the median of an even window is the upper of its two middle values
WindowStat_UpperMiddle(slice) ==
  IF Len(slice) > 0
  THEN LET sorted == SortSeq(slice, LAMBDA x, y : x < y)
           n      == Len(sorted)
           mid    == n \div 2
           sum    == SumSeq(sorted)
       IN [med2   |-> 2 * sorted[mid + 1],
           varNum |-> SumSeq([k \in 1..n |-> (n * sorted[k] - sum) * (n * sorted[k] - sum)]),
           varDen |-> n * n * Max(1, n - 1)]
  ELSE [med2 |-> 0, varNum |-> 0, varDen |-> 1]

WindowStat(slice) ==
  IF Len(slice) > 0
  THEN LET sorted == SortSeq(slice, LAMBDA x, y : x < y)
           n      == Len(sorted)
           mid    == n \div 2
           sum    == SumSeq(sorted)
       IN [med2   |-> IF n % 2 = 1 THEN 2 * sorted[mid + 1] ELSE sorted[mid] + sorted[mid + 1],
           varNum |-> SumSeq([k \in 1..n |-> (n * sorted[k] - sum) * (n * sorted[k] - sum)]),
           varDen |-> n * n * Max(1, n - 1)]
  ELSE [med2 |-> 0, varNum |-> 0, varDen |-> 1]

\* the locals of the for loop before its first iteration; right is the index
\* of the next iteration
LocalStatsInit == [right |-> 0, left |-> 0, timeSpan |-> 0, localStats |-> <<>>]

\* variant: the left pointer is never advanced
LocalStatsStep_NoShrink(segs, winSec, st) ==
  LET slice == [k \in 1..(st.right - st.left + 1) |-> segs[st.left + k].speedKmh]
  IN [right |-> st.right + 1, left |-> st.left,
      timeSpan |-> st.timeSpan + FiniteDt(segs[st.right + 1]),
      localStats |-> Append(st.localStats, WindowStat(slice))]

\* one iteration of the for loop, for index st.right
LocalStatsStep(segs, winSec, st) ==
  LET w     == ShrinkWindow(segs, winSec, st.left, st.right,
                            st.timeSpan + FiniteDt(segs[st.right + 1]))
      slice == [k \in 1..(st.right - w.left + 1) |-> segs[w.left + k].speedKmh]
  IN [right |-> st.right + 1, left |-> w.left, timeSpan |-> w.timeSpan,
      localStats |-> Append(st.localStats, WindowStat(slice))]

RECURSIVE LocalStatsLoop(_, _, _)
LocalStatsLoop(segs, winSec, st) ==
  IF st.right >= Len(segs) THEN st.localStats
  ELSE LocalStatsLoop(segs, winSec, LocalStatsStep(segs, winSec, st))

computeLocalStats(segs, winSec) ==
  IF Len(segs) = 0 \/ winSec <= 0
  THEN [k \in 1..Len(segs) |-> Null]
  ELSE LocalStatsLoop(segs, winSec, LocalStatsInit)

----------------------------------------------------------------------------
(* Circular statistics.  Sines and cosines in thousandths, over the        *)
(* bearings the model uses.                                                *)

Sin1000(d) ==
  CASE d = 0 -> 0 [] d = 5 -> 87 [] d = 90 -> 1000
    [] d = 180 -> 0 [] d = 270 -> -1000 [] d = 355 -> -87

Cos1000(d) ==
  CASE d = 0 -> 1000 [] d = 5 -> 996 [] d = 90 -> 0
    [] d = 180 -> -1000 [] d = 270 -> 0 [] d = 355 -> 996

\* 10^6 * exp(-(m*pi/180)^2): the squared mean resultant length R^2 at
\* which sqrt(-2 ln R) * 180/pi equals m degrees
ExpNegSq6(m) ==
  CASE m = 0 -> 1000000 [] m = 10 -> 969998 [] m = 25 -> 826641
    [] m = 45 -> 539642 [] m = 90 -> 84805 [] m = 180 -> 52

\* sqrt(-2 ln 1e-9) * 180/pi = 368.86..., the value when R is clamped
StdDegAtZeroR == 369

FiniteSamples(samples) == SelectSeq(samples, IsFinite)

\* R^2 * n^2 * 10^6
ResultantSq(vals) ==
  LET sin == SumSeq([k \in 1..Len(vals) |-> Sin1000(vals[k])])
      cos == SumSeq([k \in 1..Len(vals) |-> Cos1000(vals[k])])
  IN sin * sin + cos * cos

\* isNaN(circularStdDeg(samples))
CircularStdIsNaN(samples) == Len(FiniteSamples(samples)) = 0

\* variant: the deviation of the bearings taken as plain numbers
CircularStdLe_Linear(samples, maxDeg) ==
  LET vals == FiniteSamples(samples)
      n    == Len(vals)
      sum  == SumSeq(vals)
  IN maxDeg >= 0
     /\ SumSeq([k \in 1..n |-> (n * vals[k] - sum) * (n * vals[k] - sum)])
           <= maxDeg * maxDeg * n * n * n

\* circularStdDeg(samples) <= maxDeg, for samples with a finite value
CircularStdLe(samples, maxDeg) ==
  LET vals == FiniteSamples(samples)
      n    == Len(vals)
      r2   == ResultantSq(vals)
  IN IF r2 = 0 THEN maxDeg >= StdDegAtZeroR
     ELSE IF r2 >= n * n * 1000000 THEN maxDeg >= 0
     ELSE maxDeg >= 0 /\ r2 >= n * n * ExpNegSq6(maxDeg)

----------------------------------------------------------------------------
(* detectWavesV2.  Segment indices are 0-based as in the source; segs[k+1] *)
(* is the segment of index k.  The locals of the loop are the record       *)
(* {cur, found, timeOver, timeUnderPeak}.                                  *)

SafeDt(s) == IF IsFinite(s.dtS) /\ s.dtS > 0 THEN s.dtS ELSE 0

\* v >= median + kSigma*std, kSigma in tenths
GeMedianPlusKStd(v, st, k10) ==
  LET d2 == 2 * v - st.med2
  IN d2 >= 0 /\ d2 * d2 * 100 * st.varDen >= 4 * k10 * k10 * st.varNum


\* variant: the comparison with the fixed threshold has its operands swapped
ReachesThreshold_Swapped(segs, o, loc, idx) ==
  LET s == segs[idx + 1]
  IN /\ o.baseThresholdKmh >= s.speedKmh
     /\ IF o.useAdaptive /\ loc[idx + 1] # Null
        THEN GeMedianPlusKStd(s.speedKmh, loc[idx + 1], o.kSigma10)
        ELSE TRUE

\* variant: in adaptive mode thr = median + kSigma*std, without the fixed floor
ReachesThreshold_NoFloor(segs, o, loc, idx) ==
  LET s == segs[idx + 1]
  IN IF o.useAdaptive /\ loc[idx + 1] # Null
     THEN GeMedianPlusKStd(s.speedKmh, loc[idx + 1], o.kSigma10)
     ELSE s.speedKmh >= o.baseThresholdKmh

\* variant: in adaptive mode thr = min(base, median + kSigma*std)
ReachesThreshold_MinOfBoth(segs, o, loc, idx) ==
  LET s == segs[idx + 1]
  IN \/ s.speedKmh >= o.baseThresholdKmh
     \/ IF o.useAdaptive /\ loc[idx + 1] # Null
        THEN GeMedianPlusKStd(s.speedKmh, loc[idx + 1], o.kSigma10)
        ELSE FALSE

\* s.speedKmh >= thr, thr the fixed or the adaptive threshold of segment idx
ReachesThreshold(segs, o, loc, idx) ==
  LET s == segs[idx + 1]
  IN /\ s.speedKmh >= o.baseThresholdKmh
     /\ IF o.useAdaptive /\ loc[idx + 1] # Null
        THEN GeMedianPlusKStd(s.speedKmh, loc[idx + 1], o.kSigma10)
        ELSE TRUE


\* variant: the elapsed time is not tested
Over_NoDtTest(segs, o, loc, idx) == ReachesThreshold(segs, o, loc, idx)

\* variant: the speed is not tested
Over_NoSpeedTest(segs, o, loc, idx) == SafeDt(segs[idx + 1]) > 0

Over(segs, o, loc, idx) == ReachesThreshold(segs, o, loc, idx) /\ SafeDt(segs[idx + 1]) > 0


\* variant: the candidate starts one segment early, as in detectWaves of the first version
NewCandidate_StartsEarly(idx) ==
  [startIdx |-> Max(0, idx - 1), endIdx |-> idx, distM |-> 0, durationS |-> 0, maxKmh |-> 0,
   segmentIndices |-> <<>>, bearings |-> <<>>, ended |-> FALSE, peak |-> 0]

NewCandidate(idx) ==
  [startIdx |-> idx, endIdx |-> idx, distM |-> 0, durationS |-> 0, maxKmh |-> 0,
   segmentIndices |-> <<>>, bearings |-> <<>>, ended |-> FALSE, peak |-> 0]


\* variant: the distance of the segment is not added
Extend_NoDistance(c, s, idx, dt) ==
  [c EXCEPT !.endIdx = idx,
            !.segmentIndices = Append(@, idx),
            !.durationS = @ + dt,
            !.maxKmh = IF s.speedKmh > c.maxKmh THEN s.speedKmh ELSE @,
            !.peak = IF s.speedKmh > c.maxKmh THEN s.speedKmh ELSE @,
            !.bearings = IF IsFinite(s.bearingDeg) THEN Append(@, s.bearingDeg) ELSE @]

\* variant: the elapsed time of the segment is not added
Extend_NoDuration(c, s, idx, dt) ==
  [c EXCEPT !.endIdx = idx,
            !.segmentIndices = Append(@, idx),
            !.distM = @ + (IF IsFinite(s.distM) THEN s.distM ELSE 0),
            !.maxKmh = IF s.speedKmh > c.maxKmh THEN s.speedKmh ELSE @,
            !.peak = IF s.speedKmh > c.maxKmh THEN s.speedKmh ELSE @,
            !.bearings = IF IsFinite(s.bearingDeg) THEN Append(@, s.bearingDeg) ELSE @]

\* variant: maxKmh and peak follow the speed of the last member
Extend_LastSpeed(c, s, idx, dt) ==
  [c EXCEPT !.endIdx = idx,
            !.segmentIndices = Append(@, idx),
            !.distM = @ + (IF IsFinite(s.distM) THEN s.distM ELSE 0),
            !.durationS = @ + dt,
            !.maxKmh = s.speedKmh,
            !.peak = s.speedKmh,
            !.bearings = IF IsFinite(s.bearingDeg) THEN Append(@, s.bearingDeg) ELSE @]

\* variant: the elapsed time of the first member is not added
Extend_SkipsFirstDt(c, s, idx, dt) ==
  [c EXCEPT !.endIdx = idx,
            !.segmentIndices = Append(@, idx),
            !.distM = @ + (IF IsFinite(s.distM) THEN s.distM ELSE 0),
            !.durationS = IF Len(c.segmentIndices) > 0 THEN @ + dt ELSE @,
            !.maxKmh = IF s.speedKmh > c.maxKmh THEN s.speedKmh ELSE @,
            !.peak = IF s.speedKmh > c.maxKmh THEN s.speedKmh ELSE @,
            !.bearings = IF IsFinite(s.bearingDeg) THEN Append(@, s.bearingDeg) ELSE @]

Extend(c, s, idx, dt) ==
  [c EXCEPT !.endIdx = idx,
            !.segmentIndices = Append(@, idx),
            !.distM = @ + (IF IsFinite(s.distM) THEN s.distM ELSE 0),
            !.durationS = @ + dt,
            !.maxKmh = IF s.speedKmh > c.maxKmh THEN s.speedKmh ELSE @,
            !.peak = IF s.speedKmh > c.maxKmh THEN s.speedKmh ELSE @,
            !.bearings = IF IsFinite(s.bearingDeg) THEN Append(@, s.bearingDeg) ELSE @]


\* variant: below = drop > dropPct
Below_Strict(c, s, dropPct) ==
  IF c.peak > 0 THEN (c.peak - s.speedKmh) * 100 > dropPct * c.peak
  ELSE 100 > dropPct

\* variant: the speed is never taken to have decayed
Below_Never(c, s, dropPct) == FALSE

\* drop = peak>0 ? (1 - v/peak)*100 : 100;  below = drop >= dropPct
Below(c, s, dropPct) ==
  IF c.peak > 0 THEN (c.peak - s.speedKmh) * 100 >= dropPct * c.peak
  ELSE 100 >= dropPct

Validate(fnd, c, minDurationS) ==
  IF c.durationS >= minDurationS /\ Len(c.segmentIndices) > 0 THEN Append(fnd, c) ELSE fnd


\* variant: the grace timer is not reset when the candidate closes
CloseCandidate_KeepsTimer(L, o) ==
  [cur |-> Null, found |-> Validate(L.found, L.cur, o.minDurationS),
   timeOver |-> 0, timeUnderPeak |-> L.timeUnderPeak]

CloseCandidate(L, o) ==
  [cur |-> Null, found |-> Validate(L.found, L.cur, o.minDurationS),
   timeOver |-> 0, timeUnderPeak |-> 0]

DetectStep(L, segs, o, loc, idx) ==
  LET s  == segs[idx + 1]
      dt == SafeDt(s)
  IN IF Over(segs, o, loc, idx)
     THEN [cur |-> Extend(IF L.cur = Null THEN NewCandidate(idx) ELSE L.cur, s, idx, dt),
           found |-> L.found,
           timeOver |-> (IF L.cur = Null THEN 0 ELSE L.timeOver) + dt,
           timeUnderPeak |-> 0]
     ELSE IF L.cur # Null
     THEN IF Below(L.cur, s, o.dropPct)
          THEN IF L.timeUnderPeak + dt >= o.endGraceS
               THEN CloseCandidate(L, o)
               ELSE [L EXCEPT !.timeUnderPeak = @ + dt]
          ELSE [L EXCEPT !.cur = Extend(L.cur, s, idx, dt), !.timeUnderPeak = 0]
     ELSE L


\* variant: the force-close at the end of the track skips the duration test
EndOfTrack_NoMinDuration(L, o) ==
  IF L.cur # Null /\ Len(L.cur.segmentIndices) > 0
  THEN Append(L.found, L.cur)
  ELSE L.found

\* variant: the force-close at the end of the track waits for the grace timer
EndOfTrack_NeedsGrace(L, o) ==
  IF L.cur # Null /\ L.cur.durationS >= o.minDurationS /\ Len(L.cur.segmentIndices) > 0
     /\ L.timeUnderPeak >= o.endGraceS
  THEN Append(L.found, L.cur)
  ELSE L.found

\* variant: the candidate closed at the end of the track is put first
EndOfTrack_Prepends(L, o) ==
  IF L.cur # Null /\ L.cur.durationS >= o.minDurationS /\ Len(L.cur.segmentIndices) > 0
  THEN <<L.cur>> \o L.found
  ELSE L.found

EndOfTrack(L, o) ==
  IF L.cur # Null /\ L.cur.durationS >= o.minDurationS /\ Len(L.cur.segmentIndices) > 0
  THEN Append(L.found, L.cur)
  ELSE L.found

\* variant: a candidate without bearing samples is not let through
StableFilter_DropsEmpty(fnd, dirStdMaxDeg) ==
  SelectSeq(fnd, LAMBDA w : \/ ~IsFinite(dirStdMaxDeg)
                            \/ CircularStdLe(w.bearings, dirStdMaxDeg))

StableFilter(fnd, dirStdMaxDeg) ==
  SelectSeq(fnd, LAMBDA w : \/ ~IsFinite(dirStdMaxDeg)
                            \/ CircularStdIsNaN(w.bearings)
                            \/ CircularStdLe(w.bearings, dirStdMaxDeg))


\* variant: found outlives the call
InitLocals_StaleFound == [cur |-> Null, found |-> found, timeOver |-> 0, timeUnderPeak |-> 0]

InitLocals == [cur |-> Null, found |-> <<>>, timeOver |-> 0, timeUnderPeak |-> 0]

\* const local = useAdaptive ? computeLocalStats(winSec) : null
LocalOf(segs, o) == IF o.useAdaptive THEN computeLocalStats(segs, o.winSec) ELSE Null

RECURSIVE DetectLoop(_, _, _, _, _)
DetectLoop(L, segs, o, loc, idx) ==
  IF idx >= Len(segs) THEN L
  ELSE DetectLoop(DetectStep(L, segs, o, loc, idx), segs, o, loc, idx + 1)

detectWavesV2(segs, o) ==
  StableFilter(EndOfTrack(DetectLoop(InitLocals, segs, o, LocalOf(segs, o), 0), o),
               o.dirStdMaxDeg)

----------------------------------------------------------------------------
(* detectWaves of src/app.js, the fixed-threshold detector.  A wave is the *)
(* record {startIdx, endIdx, distM, durationS, maxKmh}; the locals of the  *)
(* first loop are the record {cur, found}.                                 *)

\* v || 0
OrZero(v) == IF IsFinite(v) THEN v ELSE 0

\* over = s.speedKmh >= thresholdKmh && Number.isFinite(s.dtS) && s.dtS > 0
OverFixed(s, thresholdKmh) == s.speedKmh >= thresholdKmh /\ IsFinite(s.dtS) /\ s.dtS > 0

\* one iteration of the first loop, for index idx
FirstPassStep(L, segs, thresholdKmh, minDurationS, idx) ==
  LET s == segs[idx + 1]
  IN IF OverFixed(s, thresholdKmh)
     THEN LET c == IF L.cur = Null
                   THEN [startIdx |-> Max(0, idx - 1), endIdx |-> idx,
                         distM |-> 0, durationS |-> 0, maxKmh |-> 0]
                   ELSE L.cur
          IN [L EXCEPT !.cur = [c EXCEPT !.endIdx = idx,
                                         !.distM = @ + (IF IsFinite(s.distM) THEN s.distM ELSE 0),
                                         !.durationS = @ + FiniteDt(s),
                                         !.maxKmh = IF s.speedKmh > @ THEN s.speedKmh ELSE @]]
     ELSE IF L.cur # Null
     THEN [cur |-> Null,
           found |-> IF L.cur.durationS >= minDurationS THEN Append(L.found, L.cur) ELSE L.found]
     ELSE L

RECURSIVE FirstPassLoop(_, _, _, _, _)
FirstPassLoop(L, segs, thresholdKmh, minDurationS, idx) ==
  IF idx >= Len(segs) THEN L
  ELSE FirstPassLoop(FirstPassStep(L, segs, thresholdKmh, minDurationS, idx),
                     segs, thresholdKmh, minDurationS, idx + 1)

\* found after the loop: the candidate still open is pushed if it lasts
FirstPass(segs, thresholdKmh, minDurationS) ==
  LET L == FirstPassLoop([cur |-> Null, found |-> <<>>], segs, thresholdKmh, minDurationS, 0)
  IN IF L.cur # Null /\ L.cur.durationS >= minDurationS THEN Append(L.found, L.cur) ELSE L.found

\* shortGap of the segment after the last merged wave
ShortGap(gap) == IF IsFinite(gap.dtS) THEN gap.dtS <= 1 ELSE FALSE

\* variant: the segment between two merged waves is counted twice
MergeStep_GapTwice(merged, f, segs) ==
  IF Len(merged) = 0 THEN <<f>>
  ELSE LET prev   == merged[Len(merged)]
           gapIdx == prev.endIdx + 1
       IN IF gapIdx < Len(segs) /\ ShortGap(segs[gapIdx + 1])
          THEN LET gap == segs[gapIdx + 1]
               IN [merged EXCEPT ![Len(merged)] =
                     [prev EXCEPT !.endIdx = f.endIdx,
                                  !.distM = @ + 2 * OrZero(gap.distM) + f.distM,
                                  !.durationS = @ + 2 * OrZero(gap.dtS) + f.durationS,
                                  !.maxKmh = Max(@, f.maxKmh)]]
          ELSE Append(merged, f)

\* one iteration of the merge loop, for the found wave f
MergeStep(merged, f, segs) ==
  IF Len(merged) = 0 THEN <<f>>
  ELSE LET prev   == merged[Len(merged)]
           gapIdx == prev.endIdx + 1
       IN IF gapIdx < Len(segs) /\ ShortGap(segs[gapIdx + 1])
          THEN LET gap == segs[gapIdx + 1]
               IN [merged EXCEPT ![Len(merged)] =
                     [prev EXCEPT !.endIdx = f.endIdx,
                                  !.distM = @ + OrZero(gap.distM) + f.distM,
                                  !.durationS = @ + OrZero(gap.dtS) + f.durationS,
                                  !.maxKmh = Max(@, f.maxKmh)]]
          ELSE Append(merged, f)

RECURSIVE MergeLoop(_, _, _, _)
MergeLoop(merged, fnd, segs, k) ==
  IF k > Len(fnd) THEN merged
  ELSE MergeLoop(MergeStep(merged, fnd[k], segs), fnd, segs, k + 1)

detectWaves(segs, thresholdKmh, minDurationS) ==
  MergeLoop(<<>>, FirstPass(segs, thresholdKmh, minDurationS), segs, 1)

----------------------------------------------------------------------------
(* Threshold controls *)

DEFAULT_THRESHOLD_MIN == 5

DEFAULT_THRESHOLD_MAX == 50

DEFAULT_DIRECTION_TOLERANCE == 45

RECURSIVE MaxOfSeq(_)
MaxOfSeq(s) == IF Len(s) = 1 THEN s[1] ELSE Max(Head(s), MaxOfSeq(Tail(s)))

RECURSIVE MinOfSeq(_)
MinOfSeq(s) == IF Len(s) = 1 THEN s[1] ELSE Min(Head(s), MinOfSeq(Tail(s)))

SpeedsOf(segs) == [k \in 1..Len(segs) |-> segs[k].speedKmh]

computeAutoThreshold(segs) ==
  LET speeds == SortSeq(SelectSeq(SpeedsOf(segs), LAMBDA v : IsFinite(v) /\ v > 1),
                        LAMBDA x, y : x < y)
  IN IF Len(speeds) = 0 THEN 15
     ELSE clamp(speeds[((3 * (Len(speeds) - 1)) \div 4) + 1], 5, 120)

\* Math.round(clamped*2)/2 of a whole number
Stepped(c) == (c * 2) \div 2

setThreshold(u, value) ==
  LET lo == IF u.thrMin # 0 THEN u.thrMin ELSE 0
      hi == IF u.thrMax # 0 THEN u.thrMax ELSE 100
  IN [u EXCEPT !.threshold = Stepped(clamp(value, lo, hi))]

\* returns <<ui, autoThreshold>>
configureThresholdControls(u, segs) ==
  IF Len(segs) = 0
  THEN <<setThreshold([u EXCEPT !.thrMin = DEFAULT_THRESHOLD_MIN,
                                !.thrMax = DEFAULT_THRESHOLD_MAX], 15), NaN>>
  ELSE LET speeds == SelectSeq(SpeedsOf(segs), IsFinite)
           minVal == Max(0, Min(MinOfSeq(speeds), 5))
           maxVal == Max(minVal + 5, Max(MaxOfSeq(speeds), 10))
           auto   == computeAutoThreshold(segs)
       IN <<setThreshold([u EXCEPT !.thrMin = minVal,
                                   !.thrMax = Max(maxVal, DEFAULT_THRESHOLD_MAX)], auto),
            auto>>

\* the inputs as the page shows them before a track is loaded
InitialUi ==
  [threshold |-> 15, thrMin |-> DEFAULT_THRESHOLD_MIN, thrMax |-> DEFAULT_THRESHOLD_MAX,
   minDuration |-> 2, useAdaptive |-> TRUE, winSeconds |-> 8, kSigma10 |-> 8,
   dropPct |-> 35, endGrace |-> 1,
   dirEnabled |-> FALSE, direction |-> 0,
   tolerance |-> DEFAULT_DIRECTION_TOLERANCE, stdMax |-> 25]

\* parseFloat(x) || dflt
OrDefault(x, dflt) == IF ~IsFinite(x) \/ x = 0 THEN dflt ELSE x

getDirectionSettings(u) ==
  [enabled   |-> u.dirEnabled,
   direction |-> (IF IsFinite(u.direction) THEN u.direction ELSE 0) % 360,
   tolerance |-> clamp(IF IsFinite(u.tolerance) THEN u.tolerance
                       ELSE DEFAULT_DIRECTION_TOLERANCE, 0, 180),
   stdMax    |-> clamp(IF IsFinite(u.stdMax) THEN u.stdMax ELSE 25, 0, 180)]

\* the options runWaveDetection passes to detectWavesV2
RunOptions(u, auto) ==
  [baseThresholdKmh |-> IF IsFinite(u.threshold) THEN u.threshold
                        ELSE IF IsFinite(auto) THEN auto ELSE 15,
   minDurationS     |-> Max(0, OrDefault(u.minDuration, 0)),
   useAdaptive      |-> u.useAdaptive,
   winSec           |-> Max(1, OrDefault(u.winSeconds, 8)),
   kSigma10         |-> Max(0, OrDefault(u.kSigma10, 8)),
   dropPct          |-> clamp(OrDefault(u.dropPct, 35), 0, 100),
   endGraceS        |-> Max(0, OrDefault(u.endGrace, 1)),
   dirStdMaxDeg     |-> getDirectionSettings(u).stdMax]

----------------------------------------------------------------------------
(* Tracks.  A track starts at lat 0, time 100; each further point moves    *)
(* dlat (1/36 m) and is stamped step seconds after the last stamped point,   *)
(* or carries no time (step NaN).                                          *)

Moves ==
  { [dlat |-> 360,  step |-> 1],     \* 36 km/h north
    [dlat |-> 180,  step |-> 1],     \* 18 km/h north
    [dlat |-> 0,    step |-> 1],     \* 0 km/h, valid elapsed time
    [dlat |-> -360, step |-> 1],     \* 36 km/h south
    [dlat |-> 180,  step |-> 0],     \* zero elapsed time
    [dlat |-> 180,  step |-> -1],    \* negative elapsed time
    [dlat |-> 180,  step |-> NaN] }  \* point without time

RECURSIVE BuildPoints(_, _, _)
BuildPoints(ms, acc, lastTime) ==
  IF ms = <<>> THEN acc
  ELSE LET m == Head(ms)
           t == IF IsFinite(m.step) THEN lastTime + m.step ELSE NaN
       IN BuildPoints(Tail(ms),
                      Append(acc, [lat |-> acc[Len(acc)].lat + m.dlat, time |-> t]),
                      IF IsFinite(t) THEN t ELSE lastTime)

TrackOf(ms) == BuildPoints(ms, <<[lat |-> 0, time |-> 100]>>, 100)

Tracks == { TrackOf(ms) : ms \in UNION { [1..n -> Moves] : n \in 1..MaxSegs } }

Thresholds == {0, 15, 30}

MinDurations == {0, 2}

DropPcts == {35, 100}

EndGraces == {1, 2}

\* input values of a loaded track
DetUis(segs) ==
  LET base == configureThresholdControls(InitialUi, segs)[1]
  IN { [base EXCEPT !.threshold = t, !.minDuration = md, !.useAdaptive = ad,
                    !.dropPct = dp, !.endGrace = eg] :
         t \in { x \in Thresholds : x >= base.thrMin /\ x <= base.thrMax },
         md \in MinDurations, ad \in BOOLEAN, dp \in DropPcts, eg \in EndGraces }

----------------------------------------------------------------------------
(* Enrichment and the detection pipeline *)

\* the % of JavaScript: the remainder has the sign of the dividend
JsRem(a, n) == IF a >= 0 THEN a % n ELSE -((-a) % n)

normalizeBearing(deg) ==
  IF ~IsFinite(deg) THEN NaN
  ELSE LET w == JsRem(deg, 360)
       IN IF w < 0 THEN w + 360 ELSE w


\* variant: the difference is not folded into [0,180]
angularDifference_NoFold(a, b) ==
  IF ~IsFinite(a) \/ ~IsFinite(b) THEN NaN
  ELSE JsRem(Abs(normalizeBearing(a) - normalizeBearing(b)), 360)

angularDifference(a, b) ==
  IF ~IsFinite(a) \/ ~IsFinite(b) THEN NaN
  ELSE LET diff == JsRem(Abs(normalizeBearing(a) - normalizeBearing(b)), 360)
       IN IF diff > 180 THEN 360 - diff ELSE diff

\* normalizeBearing(atan2(sin, cos) * 180/pi) on the axes
Atan2Deg(sin, cos) ==
  CASE sin = 0 /\ cos > 0 -> 0
    [] sin > 0 /\ cos = 0 -> 90
    [] sin = 0 /\ cos < 0 -> 180
    [] sin < 0 /\ cos = 0 -> 270

\* circular mean; NaN when both sums vanish
CircularMeanDeg(vals) ==
  LET sin == SumSeq([k \in 1..Len(vals) |-> Sin1000(vals[k])])
      cos == SumSeq([k \in 1..Len(vals) |-> Cos1000(vals[k])])
  IN IF sin # 0 \/ cos # 0 THEN Atan2Deg(sin, cos) ELSE NaN

\* variant: the slice stops one element early
Slice_NoTrailingPoint(arr, from, to) ==
  LET lo == Max(0, from)
      hi == Min(Len(arr), to - 1)
  IN [k \in 1..(IF hi > lo THEN hi - lo ELSE 0) |-> arr[lo + k]]

\* Array.prototype.slice(from, to), 0-based, to exclusive
Slice(arr, from, to) ==
  LET lo == Max(0, from)
      hi == Min(Len(arr), to)
  IN [k \in 1..(IF hi > lo THEN hi - lo ELSE 0) |-> arr[lo + k]]

\* [...new Set(xs)].sort((a,b)=>a-b)
SortedUnique(xs) ==
  LET S == { xs[k] : k \in 1..Len(xs) }
  IN SortSeq([k \in 1..Cardinality(S) |->
                CHOOSE x \in S : Cardinality({ y \in S : y < x }) = k - 1],
             LAMBDA x, y : x < y)

RECURSIVE PeakOf(_, _, _, _)
PeakOf(segs, indices, k, best) ==
  IF k > Len(indices) THEN best
  ELSE LET idx == indices[k]
           v   == segs[idx + 1].speedKmh
       IN PeakOf(segs, indices, k + 1,
                 IF best.none \/ v > best.peakVal
                 THEN [none |-> FALSE, peakIdx |-> idx, peakVal |-> v] ELSE best)

enrichWave(w, pts, segs) ==
  LET overIdx == SortedUnique(w.segmentIndices)
      hasOver == Len(overIdx) > 0
      start   == IF hasOver THEN Max(0, overIdx[1]) ELSE Max(0, w.startIdx)
      endCand == IF hasOver THEN overIdx[Len(overIdx)] ELSE w.endIdx
      end     == Min(Len(segs) - 1, endCand)
      indices == [k \in 1..(IF end >= start THEN end - start + 1 ELSE 0) |-> start + k - 1]
      slice   == Slice(pts, start, end + 2)
      startSource == IF start < Len(pts) THEN pts[start + 1]
                     ELSE IF Len(slice) > 0 THEN slice[1] ELSE Null
      bearingSamples == SelectSeq([k \in 1..Len(indices) |-> segs[indices[k] + 1].bearingDeg],
                                  IsFinite)
      directionDeg == IF Len(bearingSamples) > 0 THEN CircularMeanDeg(bearingSamples)
                      ELSE IF Len(slice) >= 2
                      THEN bearingDegrees(slice[1], slice[Len(slice)])
                      ELSE NaN
      peak == PeakOf(segs, indices, 1,
                     [none |-> TRUE, peakIdx |-> IF Len(indices) > 0 THEN indices[1] ELSE NaN,
                      peakVal |-> NaN])
  IN [startIdx |-> start, endIdx |-> end,
      distM |-> w.distM, durationS |-> w.durationS, maxKmh |-> w.maxKmh,
      segmentIndices |-> w.segmentIndices, bearings |-> w.bearings,
      ended |-> w.ended, peak |-> w.peak,
      indices |-> indices,
      slice |-> slice,
      directionDeg |-> directionDeg,
      \* avgKmh = distM/durationS*3.6 = avgNum/avgDen, NaN when avgDen = 0
      avgNum |-> IF w.durationS > 0 THEN w.distM ELSE 0,
      avgDen |-> IF w.durationS > 0 THEN w.durationS * 10 ELSE 0,
      startTime |-> IF startSource # Null /\ IsFinite(startSource.time)
                    THEN startSource.time ELSE NaN,
      peakIdx |-> peak.peakIdx, peakVal |-> peak.peakVal,
      speeds |-> [k \in 1..Len(indices) |-> segs[indices[k] + 1].speedKmh]]

\* startPoint and midPoint of enrichWave, the fields that need the map; e is
\* the enriched wave, canLeaf tells whether the map is ready
WaveMarkers(e, pts, canLeaf) ==
  LET startSource == IF e.startIdx < Len(pts) THEN pts[e.startIdx + 1]
                     ELSE IF Len(e.slice) > 0 THEN e.slice[1] ELSE Null
  IN [startPoint |-> IF canLeaf /\ startSource # Null THEN [lat |-> startSource.lat] ELSE Null,
      midPoint   |-> IF canLeaf /\ Len(e.slice) > 0
                     THEN [lat |-> e.slice[(Len(e.slice) \div 2) + 1].lat] ELSE Null]

\* variant: the filter is applied whether enabled or not
DirectionFilter_AlwaysOn(enr, ds) ==
  SelectSeq(enr, LAMBDA w :
    /\ IsFinite(w.directionDeg)
    /\ LET delta == angularDifference(w.directionDeg, ds.direction)
       IN IsFinite(delta) /\ delta <= ds.tolerance)

DirectionFilter(enr, ds) ==
  IF ds.enabled
  THEN SelectSeq(enr, LAMBDA w :
         /\ IsFinite(w.directionDeg)
         /\ LET delta == angularDifference(w.directionDeg, ds.direction)
            IN IsFinite(delta) /\ delta <= ds.tolerance)
  ELSE enr

\* variant: of the waves with the highest peak, the last of the longest wins
RECURSIVE BestLoop_LastOfTies(_, _, _)
BestLoop_LastOfTies(ws, k, best) ==
  IF k > Len(ws) THEN best
  ELSE BestLoop_LastOfTies(ws, k + 1,
         IF ws[k].maxKmh > ws[best].maxKmh THEN k
         ELSE IF ws[k].maxKmh = ws[best].maxKmh /\ ws[k].distM >= ws[best].distM THEN k
         ELSE best)

\* the loop of bestWaveLabel; best is the position of the best wave so far
RECURSIVE BestLoop(_, _, _)
BestLoop(ws, k, best) ==
  IF k > Len(ws) THEN best
  ELSE BestLoop(ws, k + 1,
         IF ws[k].maxKmh > ws[best].maxKmh THEN k
         ELSE IF ws[k].maxKmh = ws[best].maxKmh /\ ws[k].distM > ws[best].distM THEN k
         ELSE best)

\* the three values the label gives, of a non-empty list; the label formats
\* them as text
bestWaveLabel(ws) ==
  LET best == ws[BestLoop(ws, 1, 1)]
  IN [distM |-> best.distM, durationS |-> best.durationS, maxKmh |-> best.maxKmh]

\* wavesEmpty after resetWaveUI(); the text is one of "default" (no wave
\* detected), "noneInDirection" and "outOfTolerance", ignored the number the
\* text gives
resetWaveUI == [display |-> "block", text |-> "default", ignored |-> 0]

\* wavesEmpty after updateWaveTable(ws, {directionSettings, rejectedCount, rawCount})
updateWaveTable(we, ws, ds, rejectedCount, rawCount) ==
  LET filterApplied == ds.enabled
      rejected      == Max(0, rejectedCount)
  IN IF Len(ws) = 0
     THEN IF filterApplied /\ rawCount > 0
          THEN [display |-> "block", text |-> "noneInDirection", ignored |-> rejected]
          ELSE [display |-> "block", text |-> "default", ignored |-> 0]
     ELSE IF filterApplied /\ rejected > 0
     THEN [display |-> "block", text |-> "outOfTolerance", ignored |-> rejected]
     ELSE [we EXCEPT !.display = "none"]

\* waves, wavesEmpty and the options passed to updateWaveTable after a run
runWaveDetection(u, auto, pts, segs, we, to, en) ==
  IF Len(segs) = 0
  THEN [waves |-> <<>>, wavesEmpty |-> resetWaveUI, tableOptions |-> to, enriched |-> en]
  ELSE LET ds            == getDirectionSettings(u)
           det           == detectWavesV2(segs, RunOptions(u, auto))
           enr           == [k \in 1..Len(det) |-> enrichWave(det[k], pts, segs)]
           filtered      == DirectionFilter(enr, ds)
           rejectedCount == IF ds.enabled THEN Len(enr) - Len(filtered) ELSE 0
       IN [waves |-> filtered,
           wavesEmpty |-> updateWaveTable(we, filtered, ds, rejectedCount, Len(enr)),
           tableOptions |-> [directionSettings |-> ds, rejectedCount |-> rejectedCount,
                             rawCount |-> Len(enr)],
           enriched |-> enr]

\* the assignments of runWaveDetection
Publish(r) ==
  /\ waves' = r.waves
  /\ wavesEmpty' = r.wavesEmpty
  /\ tableOptions' = r.tableOptions
  /\ enriched' = r.enriched

----------------------------------------------------------------------------
(* Specification of one track under detection: detectWavesV2, one loop     *)
(* iteration per step, called twice with the same inputs.                  *)

Locals == [cur |-> cur, found |-> found, timeOver |-> timeOver, timeUnderPeak |-> timeUnderPeak]

InitDet ==
  /\ points \in Tracks
  /\ segments = ComputeSegments(points)
  /\ stats = ComputeStats(segments)
  /\ waves = <<>>
  /\ autoThreshold = computeAutoThreshold(segments)
  /\ ui \in DetUis(segments)
  /\ enabled = TRUE
  /\ pending = <<>>
  /\ wavesEmpty = resetWaveUI
  /\ tableOptions = Null
  /\ enriched = <<>>
  /\ call = Null
  /\ ret = Null
  /\ opts = RunOptions(ui, autoThreshold)
  /\ local = LocalOf(segments, opts)
  /\ pc = "loop"
  /\ i = 0
  /\ cur = Null
  /\ found = <<>>
  /\ timeOver = 0
  /\ timeUnderPeak = 0
  /\ detected = <<>>
  /\ run = 1
  /\ prevDetected = <<>>

\* one iteration of the for loop
DetStep ==
  /\ pc = "loop"
  /\ i < Len(segments)
  /\ \E L \in {DetectStep(Locals, segments, opts, local, i)} :
        /\ cur' = L.cur
        /\ found' = L.found
        /\ timeOver' = L.timeOver
        /\ timeUnderPeak' = L.timeUnderPeak
  /\ i' = i + 1
  /\ UNCHANGED <<opts, local, pc, detected, run, prevDetected>>
  /\ UNCHANGED appVars
  /\ UNCHANGED fnVars

\* end of track: force-close, stability filter, return
DetEnd ==
  /\ pc = "loop"
  /\ i >= Len(segments)
  /\ found' = EndOfTrack(Locals, opts)
  /\ detected' = StableFilter(found', opts.dirStdMaxDeg)
  /\ pc' = "done"
  /\ UNCHANGED <<opts, local, i, cur, timeOver, timeUnderPeak, run, prevDetected>>
  /\ UNCHANGED appVars
  /\ UNCHANGED fnVars

\* detectWavesV2 is called again with the same segments and options
DetRerun ==
  /\ pc = "done"
  /\ run = 1
  /\ prevDetected' = detected
  /\ run' = 2
  /\ pc' = "loop"
  /\ i' = 0
  /\ cur' = InitLocals.cur
  /\ found' = InitLocals.found
  /\ timeOver' = InitLocals.timeOver
  /\ timeUnderPeak' = InitLocals.timeUnderPeak
  /\ detected' = <<>>
  /\ local' = LocalOf(segments, opts)
  /\ UNCHANGED opts
  /\ UNCHANGED appVars
  /\ UNCHANGED fnVars

NextDet == DetStep \/ DetEnd

SpecDet == InitDet /\ [][NextDet]_vars

NextRerun == DetStep \/ DetEnd \/ DetRerun

SpecRerun == InitDet /\ [][NextRerun]_vars

----------------------------------------------------------------------------
(* Specification of the scenarios: detectWavesV2 on the tracks and inputs  *)
(* of the worked scenarios.  A ramp is a track of 10 segments of 1 s whose *)
(* speed starts at 0, rises strictly to 30 km/h and falls strictly to 0.   *)

RampLevels == {5, 10, 15, 20, 25}

\* the elements of a set of numbers, ascending
Ascending(S) ==
  [k \in 1..Cardinality(S) |-> CHOOSE x \in S : Cardinality({ y \in S : y < x }) = k - 1]

Reversed(q) == [k \in 1..Len(q) |-> q[Len(q) + 1 - k]]

\* speeds of the 10 segments: 0, the rise, 30, the fall, 0
RampSpeeds ==
  { <<0>> \o Ascending(U) \o <<30>> \o Reversed(Ascending(D)) \o <<0>> :
      <<U, D>> \in { ud \in (SUBSET RampLevels) \X (SUBSET RampLevels) :
                       Cardinality(ud[1]) + Cardinality(ud[2]) + 3 = 10 } }

\* a point dt seconds later that makes a segment of v km/h to the north
MoveAt(v, dt) == [dlat |-> v * 10 * dt, step |-> dt]

RampTracks == { TrackOf([k \in 1..Len(sp) |-> MoveAt(sp[k], 1)]) : sp \in RampSpeeds }

\* two points 100 m and 10 s apart
TwoPointTrack == TrackOf(<<MoveAt(36, 10)>>)

ScenarioTracks == RampTracks \cup {TwoPointTrack}

\* the inputs of the scenario of a track
ScenarioUis(segs) ==
  LET base == configureThresholdControls(InitialUi, segs)[1]
  IN IF Len(segs) = 1
     THEN { [base EXCEPT !.threshold = 15, !.minDuration = md, !.useAdaptive = ad] :
              md \in {0, 2, 10, 12}, ad \in BOOLEAN }
     ELSE { [base EXCEPT !.threshold = 10, !.minDuration = md, !.useAdaptive = FALSE,
                         !.dropPct = 50, !.endGrace = 1] :
              md \in MinDurations }

InitScen ==
  /\ points \in ScenarioTracks
  /\ segments = ComputeSegments(points)
  /\ stats = ComputeStats(segments)
  /\ waves = <<>>
  /\ autoThreshold = computeAutoThreshold(segments)
  /\ ui \in ScenarioUis(segments)
  /\ enabled = TRUE
  /\ pending = <<>>
  /\ wavesEmpty = resetWaveUI
  /\ tableOptions = Null
  /\ enriched = <<>>
  /\ call = Null
  /\ ret = Null
  /\ opts = RunOptions(ui, autoThreshold)
  /\ local = LocalOf(segments, opts)
  /\ pc = "loop"
  /\ i = 0
  /\ cur = Null
  /\ found = <<>>
  /\ timeOver = 0
  /\ timeUnderPeak = 0
  /\ detected = <<>>
  /\ run = 1
  /\ prevDetected = <<>>

SpecScen == InitScen /\ [][NextDet]_vars

----------------------------------------------------------------------------

(* Specification of the functions: one call of angularDifference, of the   *)
(* stability filter of detectWavesV2, of bestWaveLabel, of the options of  *)
(* runWaveDetection, of computeLocalStats (one loop iteration per step),   *)
(* of computeSegmentsAndStats or of enrichWave, on arguments drawn from    *)
(* bounded sets.                                                           *)

MaxBearings == 2

MaxFound == 2

MaxWaves == 3

AngleInputs == {-370, -350, -180, -10, 0, 10, 180, 190, 350, 360, 370, 710}

AngularCalls == { [fn |-> "angularDifference", a |-> a, b |-> b] : a, b \in AngleInputs }

FilterAngles == {0, 90, 180}

\* bearings of a candidate: up to MaxBearings samples, and two longer lists
BearingLists ==
  UNION { [1..n -> FilterAngles] : n \in 0..MaxBearings }
    \cup { <<0, 5, 355>>, <<0, 90, 180, 270>> }

FilterMaxima == {NaN, 0, 25, 90}

\* c is a call of the stability filter on up to MaxFound candidates
IsFilterCall(c) ==
  \E n \in 0..MaxFound :
    \E f \in [1..n -> { [bearings |-> b] : b \in BearingLists }] :
      \E m \in FilterMaxima :
        c = [fn |-> "stableFilter", found |-> f, dirStdMaxDeg |-> m]

\* a wave list; the duration of a wave is its position, which tells the
\* waves of a list apart
WaveLists ==
  { [k \in 1..Len(pd) |-> [maxKmh |-> pd[k][1], distM |-> pd[k][2], durationS |-> k]] :
      pd \in UNION { [1..n -> {18, 36} \X {180, 360}] : n \in 1..MaxWaves } }

BestCalls == { [fn |-> "bestWaveLabel", ws |-> ws] : ws \in WaveLists }

\* values typed into the inputs: inside and outside their ranges, and empty
ConfigUis ==
  { [InitialUi EXCEPT !.threshold = t, !.minDuration = md, !.winSeconds = ws,
                      !.kSigma10 = ks, !.dropPct = dp, !.endGrace = eg,
                      !.tolerance = tl, !.stdMax = sm] :
      t \in {NaN, 0, 20}, md \in {-1, 0, 2}, ws \in {0, 8}, ks \in {0, 8},
      dp \in {0, 35, 150}, eg \in {0, 1}, tl \in {45, 200}, sm \in {-5, 25} }

WindowLengths == {1, 2}

IsWindowCall(c) ==
  \E pts \in Tracks : \E w \in WindowLengths :
    c = [fn |-> "computeLocalStats", segments |-> ComputeSegments(pts), winSec |-> w]

\* window lengths detectWavesV2 is called with, the adaptive threshold on
WindowOptions == {-1, 0, 1}

\* options of detectWavesV2 in adaptive mode
AdaptiveOptions ==
  { [baseThresholdKmh |-> 15, minDurationS |-> 0, useAdaptive |-> TRUE, winSec |-> w,
     kSigma10 |-> 8, dropPct |-> 35, endGraceS |-> 1, dirStdMaxDeg |-> 25] :
      w \in WindowOptions }

IsDetectCall(c) ==
  \E pts \in Tracks : \E o \in AdaptiveOptions :
    c = [fn |-> "detectWavesV2", segments |-> ComputeSegments(pts), options |-> o]

\* tracks of the fixed-threshold detector: a point moves at 36 km/h, or stays
\* for 1 s, for 2 s, or for no time
MaxLullSegs == 4

LullMoves ==
  { [dlat |-> 360, step |-> 1], [dlat |-> 0, step |-> 1],
    [dlat |-> 0, step |-> 2], [dlat |-> 0, step |-> 0] }

LullTracks == { TrackOf(ms) : ms \in UNION { [1..n -> LullMoves] : n \in 1..MaxLullSegs } }

IsFixedCall(c) ==
  \E pts \in LullTracks : \E md \in MinDurations :
    c = [fn |-> "detectWaves", segments |-> ComputeSegments(pts), thresholdKmh |-> 15,
         minDurationS |-> md]

SegmentCalls == { [fn |-> "computeSegmentsAndStats", points |-> pts] : pts \in Tracks }

\* inputs of the runs whose waves are enriched
EnrichUis(segs) ==
  { u \in DetUis(segs) : u.minDuration = 0 /\ ~u.useAdaptive /\ u.endGrace = 1 }

\* the waves detectWavesV2 returns for a track and its inputs
DetectedOn(pts, u) ==
  LET segs == ComputeSegments(pts)
      det  == detectWavesV2(segs, RunOptions(u, computeAutoThreshold(segs)))
  IN { det[k] : k \in 1..Len(det) }

\* enrichWave is called on the waves detected on the loaded track, with the
\* map ready or not
EnrichCallsOf(pts) ==
  UNION { { [fn |-> "enrichWave", w |-> w, points |-> pts, segments |-> ComputeSegments(pts),
             canLeaf |-> cl] : w \in DetectedOn(pts, u), cl \in BOOLEAN } :
          u \in EnrichUis(ComputeSegments(pts)) }

\* a track that runs south at 36 km/h, with two points in between that lie
\* to the north and repeat the time of the point before them
GapTrack ==
  TrackOf(<<[dlat |-> -360, step |-> 1], [dlat |-> 180, step |-> 0],
            [dlat |-> 180, step |-> 0], [dlat |-> -360, step |-> 1]>>)

\* tracks on which a point stays for 1 s or for 2 s, or moves at 36 km/h
StallMoves ==
  { [dlat |-> 0, step |-> 1], [dlat |-> 0, step |-> 2], [dlat |-> 360, step |-> 1] }

StallTracks == { TrackOf(ms) : ms \in UNION { [1..n -> StallMoves] : n \in 1..MaxSegs } }

\* inputs of the adaptive runs whose waves are enriched
AdaptiveUis(segs) ==
  LET base == configureThresholdControls(InitialUi, segs)[1]
  IN { [base EXCEPT !.threshold = t, !.minDuration = 0, !.useAdaptive = TRUE,
                    !.winSeconds = ws, !.endGrace = eg] :
         t \in { x \in Thresholds : x >= base.thrMin /\ x <= base.thrMax },
         ws \in {2, 8}, eg \in EndGraces }

AdaptiveEnrichCallsOf(pts) ==
  UNION { { [fn |-> "enrichWave", w |-> w, points |-> pts, segments |-> ComputeSegments(pts),
             canLeaf |-> cl] : w \in DetectedOn(pts, u), cl \in BOOLEAN } :
          u \in AdaptiveUis(ComputeSegments(pts)) }

\* detectWavesV2 as runWaveDetection calls it on the loaded track pts with the
\* inputs u
RunCallOf(pts, u) ==
  LET segs == ComputeSegments(pts)
  IN [fn |-> "detectWavesV2", segments |-> segs,
      options |-> RunOptions(u, computeAutoThreshold(segs))]

\* c is a call of detectWavesV2 by runWaveDetection, in fixed or in adaptive
\* mode
IsRunCall(c) ==
  \/ \E pts \in Tracks : \E u \in EnrichUis(ComputeSegments(pts)) : c = RunCallOf(pts, u)
  \/ \E pts \in StallTracks : \E u \in AdaptiveUis(ComputeSegments(pts)) : c = RunCallOf(pts, u)

\* c is a call of enrichWave on a wave detected on a loaded track
IsEnrichCall(c) ==
  \/ \E pts \in Tracks \cup {GapTrack} : c \in EnrichCallsOf(pts)
  \/ \E pts \in StallTracks : c \in AdaptiveEnrichCallsOf(pts)

OptionCalls == { [fn |-> "RunOptions", ui |-> u, autoThreshold |-> a] :
                   u \in ConfigUis, a \in {NaN, 20} }

InitFn ==
  /\ \/ call \in AngularCalls
     \/ IsFilterCall(call)
     \/ call \in BestCalls
     \/ call \in OptionCalls
     \/ IsWindowCall(call)
     \/ call \in SegmentCalls
     \/ IsEnrichCall(call)
     \/ IsDetectCall(call)
     \/ IsFixedCall(call)
     \/ IsRunCall(call)
  /\ ret = Null
  /\ points = <<>>
  /\ segments = <<>>
  /\ stats = Null
  /\ waves = <<>>
  /\ autoThreshold = NaN
  /\ ui = InitialUi
  /\ enabled = FALSE
  /\ pending = <<>>
  /\ wavesEmpty = resetWaveUI
  /\ tableOptions = Null
  /\ enriched = <<>>
  /\ opts = Null
  /\ local = Null
  /\ pc = "idle"
  /\ i = 0
  /\ cur = Null
  /\ found = <<>>
  /\ timeOver = 0
  /\ timeUnderPeak = 0
  /\ detected = <<>>
  /\ run = 0
  /\ prevDetected = <<>>

CallAngularDifference ==
  /\ ret = Null
  /\ call.fn = "angularDifference"
  /\ ret' = [value |-> angularDifference(call.a, call.b)]
  /\ UNCHANGED <<call, appVars, detVars>>

CallStableFilter ==
  /\ ret = Null
  /\ call.fn = "stableFilter"
  /\ ret' = [value |-> StableFilter(call.found, call.dirStdMaxDeg)]
  /\ UNCHANGED <<call, appVars, detVars>>

CallBestWaveLabel ==
  /\ ret = Null
  /\ call.fn = "bestWaveLabel"
  /\ ret' = [value |-> bestWaveLabel(call.ws)]
  /\ UNCHANGED <<call, appVars, detVars>>

\* the options runWaveDetection builds from the inputs, and the direction settings
CallRunOptions ==
  /\ ret = Null
  /\ call.fn = "RunOptions"
  /\ ret' = [value |-> RunOptions(call.ui, call.autoThreshold),
             directionSettings |-> getDirectionSettings(call.ui)]
  /\ UNCHANGED <<call, appVars, detVars>>

\* computeLocalStats, one iteration of its for loop per step; ret holds the
\* locals of the loop
CallComputeLocalStats ==
  /\ call.fn = "computeLocalStats"
  /\ \E st \in {IF ret = Null THEN LocalStatsInit ELSE ret} :
       /\ st.right < Len(call.segments)
       /\ ret' = LocalStatsStep(call.segments, call.winSec, st)
  /\ UNCHANGED <<call, appVars, detVars>>

CallComputeSegmentsAndStats ==
  /\ ret = Null
  /\ call.fn = "computeSegmentsAndStats"
  /\ \E segs \in {ComputeSegments(call.points)} :
       ret' = [segments |-> segs, stats |-> ComputeStats(segs)]
  /\ UNCHANGED <<call, appVars, detVars>>

CallEnrichWave ==
  /\ ret = Null
  /\ call.fn = "enrichWave"
  /\ \E e \in {enrichWave(call.w, call.points, call.segments)} :
       ret' = [value |-> e, markers |-> WaveMarkers(e, call.points, call.canLeaf)]
  /\ UNCHANGED <<call, appVars, detVars>>

\* detectWavesV2: the local statistics it computes, the segments it finds
\* over the threshold, and the waves it returns
CallDetectWavesV2 ==
  /\ ret = Null
  /\ call.fn = "detectWavesV2"
  /\ \E loc \in {LocalOf(call.segments, call.options)} :
       ret' = [local |-> loc,
               over  |-> { k \in 0..(Len(call.segments) - 1) :
                             Over(call.segments, call.options, loc, k) },
               value |-> detectWavesV2(call.segments, call.options)]
  /\ UNCHANGED <<call, appVars, detVars>>

\* detectWaves of src/app.js: the waves of its first loop and the waves it
\* returns
CallDetectWaves ==
  /\ ret = Null
  /\ call.fn = "detectWaves"
  /\ ret' = [found |-> FirstPass(call.segments, call.thresholdKmh, call.minDurationS),
             value |-> detectWaves(call.segments, call.thresholdKmh, call.minDurationS)]
  /\ UNCHANGED <<call, appVars, detVars>>

NextFn ==
  \/ CallAngularDifference
  \/ CallStableFilter
  \/ CallBestWaveLabel
  \/ CallRunOptions
  \/ CallComputeLocalStats
  \/ CallComputeSegmentsAndStats
  \/ CallEnrichWave
  \/ CallDetectWavesV2
  \/ CallDetectWaves

SpecFn == InitFn /\ [][NextFn]_vars

----------------------------------------------------------------------------

(* Specification of the page: file loads, clear, detect and the inputs.    *)
(* A handler runs to completion; the load handler is suspended once, at    *)
(* await file.text().                                                      *)

MaxPending == 1

North36 == [dlat |-> 360, step |-> 1]

North18 == [dlat |-> 180, step |-> 1]

Still == [dlat |-> 0, step |-> 1]

South36 == [dlat |-> -360, step |-> 1]

ZeroDt == [dlat |-> 180, step |-> 0]

\* a file is its extension and what the parser makes of its text
Files ==
  { [ext |-> "txt", parse |-> "ok",    pts |-> <<>>],
    [ext |-> "gpx", parse |-> "error", pts |-> <<>>],
    [ext |-> "gpx", parse |-> "ok",    pts |-> <<[lat |-> 0, time |-> 100]>>],
    [ext |-> "gpx", parse |-> "ok",    pts |-> TrackOf(<<North36, North18, Still>>)],
    [ext |-> "gpx", parse |-> "ok",    pts |-> TrackOf(<<North36, Still, South36>>)],
    [ext |-> "csv", parse |-> "ok",    pts |-> TrackOf(<<North36, ZeroDt, South36, South36>>)] }

ThresholdInputs == {NaN, 30}

DetectorInputs ==
  { <<"minDuration", 0>>, <<"minDuration", 2>>,
    <<"useAdaptive", FALSE>>, <<"useAdaptive", TRUE>> }

DirectionInputs ==
  { <<"direction", 0>>, <<"direction", 180>>, <<"stdMax", 25>> }

Init ==
  /\ points = <<>>
  /\ segments = <<>>
  /\ stats = Null
  /\ waves = <<>>
  /\ autoThreshold = NaN
  /\ ui = InitialUi
  /\ enabled = FALSE
  /\ pending = <<>>
  /\ wavesEmpty = resetWaveUI
  /\ tableOptions = Null
  /\ enriched = <<>>
  /\ call = Null
  /\ ret = Null
  /\ opts = Null
  /\ local = Null
  /\ pc = "idle"
  /\ i = 0
  /\ cur = Null
  /\ found = <<>>
  /\ timeOver = 0
  /\ timeUnderPeak = 0
  /\ detected = <<>>
  /\ run = 0
  /\ prevDetected = <<>>

RemoveAt(s, k) == [j \in 1..(Len(s) - 1) |-> IF j < k THEN s[j] ELSE s[j + 1]]

\* the load throws: unsupported extension, parser error, or too few points
LoadFails(f) ==
  \/ f.ext \notin {"gpx", "csv"}
  \/ f.parse = "error"
  \/ Len(f.pts) < 2

\* fileInput 'change': the handler starts and awaits file.text()
FileChange(f) ==
  /\ Len(pending) < MaxPending
  /\ pending' = Append(pending, f)
  /\ UNCHANGED <<points, segments, stats, waves, autoThreshold, ui, enabled,
                         wavesEmpty, tableOptions, enriched>>
  /\ UNCHANGED detVars
  /\ UNCHANGED fnVars

\* the rest of the load handler, after file.text() has resolved
LoadResume(k) ==
  /\ k \in 1..Len(pending)
  /\ pending' = RemoveAt(pending, k)
  /\ LET f == pending[k]
     IN IF f.ext \notin {"gpx", "csv"} \/ f.parse = "error"
        THEN UNCHANGED <<points, segments, stats, waves, autoThreshold, ui, enabled,
                         wavesEmpty, tableOptions, enriched>>
        ELSE /\ points' = f.pts
             /\ IF Len(points') < 2
                THEN UNCHANGED <<segments, stats, waves, autoThreshold, ui, enabled,
                                 wavesEmpty, tableOptions, enriched>>
                ELSE /\ segments' = ComputeSegments(points')
                     /\ stats' = ComputeStats(segments')
                     /\ \E c \in {configureThresholdControls(ui, segments')} :
                          ui' = c[1] /\ autoThreshold' = c[2]
                     /\ enabled' = TRUE
                     /\ \E r \in {runWaveDetection(ui', autoThreshold', points', segments',
                                                  wavesEmpty, tableOptions, enriched)} : Publish(r)
  /\ UNCHANGED detVars
  /\ UNCHANGED fnVars

\* variant: the handler leaves segments and stats of the cleared track
ClearClick_KeepsSegments ==
  /\ enabled
  /\ points' = <<>>
  /\ waves' = <<>>
  /\ autoThreshold' = NaN
  /\ ui' = [setThreshold([ui EXCEPT !.thrMin = DEFAULT_THRESHOLD_MIN,
                                    !.thrMax = DEFAULT_THRESHOLD_MAX], 15)
              EXCEPT !.dirEnabled = FALSE, !.direction = 0,
                     !.tolerance = DEFAULT_DIRECTION_TOLERANCE, !.stdMax = 25]
  /\ enabled' = FALSE
  /\ wavesEmpty' = resetWaveUI
  /\ UNCHANGED <<segments, stats, pending, tableOptions, enriched>>
  /\ UNCHANGED detVars
  /\ UNCHANGED fnVars

\* clearBtn 'click'
ClearClick ==
  /\ enabled
  /\ points' = <<>>
  /\ segments' = <<>>
  /\ stats' = Null
  /\ waves' = <<>>
  /\ autoThreshold' = NaN
  /\ ui' = [setThreshold([ui EXCEPT !.thrMin = DEFAULT_THRESHOLD_MIN,
                                    !.thrMax = DEFAULT_THRESHOLD_MAX], 15)
              EXCEPT !.dirEnabled = FALSE, !.direction = 0,
                     !.tolerance = DEFAULT_DIRECTION_TOLERANCE, !.stdMax = 25]
  /\ enabled' = FALSE
  /\ wavesEmpty' = resetWaveUI
  /\ UNCHANGED <<pending, tableOptions, enriched>>
  /\ UNCHANGED detVars
  /\ UNCHANGED fnVars

DetectClick ==
  /\ enabled
  /\ \E r \in {runWaveDetection(ui, autoThreshold, points, segments,
                             wavesEmpty, tableOptions, enriched)} : Publish(r)
  /\ UNCHANGED <<points, segments, stats, autoThreshold, ui, enabled, pending>>
  /\ UNCHANGED detVars
  /\ UNCHANGED fnVars

\* thresholdNumber 'input'
ThresholdInput(v) ==
  /\ enabled
  /\ IF ~IsFinite(v)
     THEN /\ ui' = [ui EXCEPT !.threshold = NaN]
          /\ UNCHANGED <<waves, wavesEmpty, tableOptions, enriched>>
     ELSE /\ ui' = setThreshold(ui, v)
          /\ \E r \in {runWaveDetection(ui', autoThreshold, points, segments,
                                  wavesEmpty, tableOptions, enriched)} : Publish(r)
  /\ UNCHANGED <<points, segments, stats, autoThreshold, enabled, pending>>
  /\ UNCHANGED detVars
  /\ UNCHANGED fnVars

\* thresholdNumber 'blur'
ThresholdBlur ==
  /\ enabled
  /\ ~IsFinite(ui.threshold)
  /\ ui' = setThreshold(ui, IF IsFinite(autoThreshold) THEN autoThreshold ELSE 15)
  /\ UNCHANGED <<points, segments, stats, waves, autoThreshold, enabled, pending,
               wavesEmpty, tableOptions, enriched>>
  /\ UNCHANGED detVars
  /\ UNCHANGED fnVars

\* 'change'/'input' of minDuration, useAdaptive, winSeconds, kSigma, dropPct, endGrace
DetectorInput(fv) ==
  /\ enabled
  /\ ui' = [ui EXCEPT ![fv[1]] = fv[2]]
  /\ \E r \in {runWaveDetection(ui', autoThreshold, points, segments,
                                  wavesEmpty, tableOptions, enriched)} : Publish(r)
  /\ UNCHANGED <<points, segments, stats, autoThreshold, enabled, pending>>
  /\ UNCHANGED detVars
  /\ UNCHANGED fnVars

\* directionToggle 'change'
DirectionToggleChange ==
  /\ enabled
  /\ ui' = [ui EXCEPT !.dirEnabled = ~@]
  /\ \E r \in {runWaveDetection(ui', autoThreshold, points, segments,
                                  wavesEmpty, tableOptions, enriched)} : Publish(r)
  /\ UNCHANGED <<points, segments, stats, autoThreshold, enabled, pending>>
  /\ UNCHANGED detVars
  /\ UNCHANGED fnVars

\* 'input' of directionAngle, directionTolerance, dirStdMax
DirectionInput(fv) ==
  /\ enabled
  /\ ui.dirEnabled
  /\ ui' = [ui EXCEPT ![fv[1]] = fv[2]]
  /\ \E r \in {runWaveDetection(ui', autoThreshold, points, segments,
                                  wavesEmpty, tableOptions, enriched)} : Publish(r)
  /\ UNCHANGED <<points, segments, stats, autoThreshold, enabled, pending>>
  /\ UNCHANGED detVars
  /\ UNCHANGED fnVars

Next ==
  \/ \E f \in Files : FileChange(f)
  \/ \E k \in 1..MaxPending : LoadResume(k)
  \/ ClearClick
  \/ DetectClick
  \/ \E v \in ThresholdInputs : ThresholdInput(v)
  \/ ThresholdBlur
  \/ \E fv \in DetectorInputs : DetectorInput(fv)
  \/ DirectionToggleChange
  \/ \E fv \in DirectionInputs : DirectionInput(fv)

Spec == Init /\ [][Next]_vars

----------------------------------------------------------------------------
(* Properties *)

Seg(k) == segments[k + 1]

Members(w) == { w.segmentIndices[k] : k \in 1..Len(w.segmentIndices) }

SeqToSet(q) == { q[k] : k \in 1..Len(q) }

\* the condition of line 1019, written out
IsOver(k) == ReachesThreshold(segments, opts, local, k) /\ IsFinite(Seg(k).dtS) /\ Seg(k).dtS > 0

StrictlyAscending(q) == \A k \in 1..(Len(q) - 1) : q[k] < q[k + 1]

Consecutive(q) == \A k \in 1..(Len(q) - 1) : q[k + 1] = q[k] + 1

InRange(q) == \A k \in 1..Len(q) : q[k] >= 0 /\ q[k] <= Len(segments) - 1

\* C1 as stated: the member indices of every returned wave are a non-empty
\* run of consecutive integers inside [0, segments.length-1]
C1_IndicesConsecutive ==
  pc = "done" =>
    \A w \in SeqToSet(detected) :
      /\ Len(w.segmentIndices) > 0
      /\ InRange(w.segmentIndices)
      /\ Consecutive(w.segmentIndices)

\* C1 amended: the member indices of every returned wave are non-empty,
\* strictly ascending, inside [0, segments.length-1], run from startIdx to
\* endIdx, and an index missing between them is a segment that is not over
\* its threshold with a positive elapsed time
C1_IndicesAscending ==
  pc = "done" =>
    \A w \in SeqToSet(detected) :
      /\ Len(w.segmentIndices) > 0
      /\ InRange(w.segmentIndices)
      /\ StrictlyAscending(w.segmentIndices)
      /\ w.segmentIndices[1] = w.startIdx
      /\ w.segmentIndices[Len(w.segmentIndices)] = w.endIdx
      /\ \A k \in w.startIdx..w.endIdx : k \notin Members(w) => ~IsOver(k)

\* a returned wave whose member indices skip a segment
C1_Witness ==
  /\ pc = "done"
  /\ \E w \in SeqToSet(detected) :
       \E k \in w.startIdx..w.endIdx : k \notin Members(w)

\* C2: every emitted candidate and every returned wave lasts at least
\* minDurationS, whether closed by the grace rule or at the end of the track
C2_MinDuration ==
  /\ \A w \in SeqToSet(found) : w.durationS >= opts.minDurationS
  /\ \A w \in SeqToSet(detected) : w.durationS >= opts.minDurationS

\* a run with a positive minimum in which one candidate was emitted by the
\* grace rule, one by the end of the track, and a shorter one discarded
C2_Witness ==
  /\ pc = "done"
  /\ opts.minDurationS > 0
  /\ cur # Null
  /\ Len(detected) > 0
  /\ detected[Len(detected)] = cur

WithThreshold(t) == [opts EXCEPT !.baseThresholdKmh = t]

\* C3 as stated: in fixed mode a higher threshold never finds more waves
C3_CountMonotone ==
  (pc = "done" /\ ~opts.useAdaptive) =>
    \A t2 \in Thresholds :
      t2 >= opts.baseThresholdKmh =>
        Len(detectWavesV2(segments, WithThreshold(t2))) <= Len(detected)

\* C3 amended: in fixed mode, with a higher threshold every segment that is
\* over the threshold is over the lower one as well, and no wave is found
\* with the higher threshold when no segment is over the lower one
C3_OverMonotone ==
  (pc = "done" /\ ~opts.useAdaptive) =>
    \A t2 \in Thresholds :
      t2 >= opts.baseThresholdKmh =>
        /\ \A k \in 0..(Len(segments) - 1) :
             Over(segments, WithThreshold(t2), local, k) => IsOver(k)
        /\ (\A k \in 0..(Len(segments) - 1) : ~IsOver(k)) =>
             detectWavesV2(segments, WithThreshold(t2)) = <<>>

\* a fixed-mode run whose wave splits in two under a higher threshold
C3_Witness ==
  /\ pc = "done"
  /\ ~opts.useAdaptive
  /\ Len(detected) = 1
  /\ \E t2 \in Thresholds :
       /\ t2 > opts.baseThresholdKmh
       /\ Len(detectWavesV2(segments, WithThreshold(t2))) = 2

\* v > median + kSigma*std
GtMedianPlusKStd(v, st, k10) ==
  LET d2 == 2 * v - st.med2
  IN d2 > 0 /\ d2 * d2 * 100 * st.varDen > 4 * k10 * k10 * st.varNum

LocalStat(k) == local[k + 1]

\* segment k is a spike on a slow baseline: valid elapsed time of at least
\* minDurationS, faster than every other segment and than median + kSigma*std
IsSpike(k) ==
  /\ IsFinite(Seg(k).dtS) /\ Seg(k).dtS > 0
  /\ Seg(k).dtS >= opts.minDurationS
  /\ \A j \in 0..(Len(segments) - 1) : j # k => Seg(j).speedKmh < Seg(k).speedKmh
  /\ GtMedianPlusKStd(Seg(k).speedKmh, LocalStat(k), opts.kSigma10)

\* C4 as stated: in adaptive mode a spike below the fixed threshold and above
\* median + kSigma*std is a member of a returned wave
C4_SpikeBelowFixedDetected ==
  (pc = "done" /\ opts.useAdaptive) =>
    \A k \in 0..(Len(segments) - 1) :
      (IsSpike(k) /\ Seg(k).speedKmh < opts.baseThresholdKmh) =>
        \E w \in SeqToSet(detected) : k \in Members(w)

\* C4 amended: in adaptive mode a spike above median + kSigma*std is a member
\* of an emitted candidate exactly when its speed reaches the fixed threshold
\* too; the first member of every candidate has a speed of at least the fixed
\* threshold
C4_SpikeNeedsFixedThreshold ==
  (pc = "done" /\ opts.useAdaptive) =>
    /\ \A k \in 0..(Len(segments) - 1) :
         IsSpike(k) =>
           ((\E w \in SeqToSet(found) : k \in Members(w))
              <=> Seg(k).speedKmh >= opts.baseThresholdKmh)
    /\ \A w \in SeqToSet(found) : Seg(w.segmentIndices[1]).speedKmh >= opts.baseThresholdKmh

\* an adaptive run with a spike below the fixed threshold, and none returned
C4_Witness ==
  /\ pc = "done"
  /\ opts.useAdaptive
  /\ detected = <<>>
  /\ \E k \in 0..(Len(segments) - 1) :
       IsSpike(k) /\ Seg(k).speedKmh < opts.baseThresholdKmh /\ Seg(k).speedKmh > 0

\* C5: a load that fails leaves points, segments, stats and waves as they were
C5_FailedLoadKeepsState ==
  [][\A k \in 1..Len(pending) :
       (LoadResume(k) /\ LoadFails(pending[k])) =>
         (points' = points /\ segments' = segments /\ stats' = stats /\ waves' = waves)]_vars

C7_IdleToActive ==
  [][(pc = "loop" /\ pc' = "loop" /\ i' = i + 1) =>
       /\ (cur = Null /\ cur' # Null) <=> (cur = Null /\ IsOver(i))
       /\ (cur = Null /\ cur' # Null) =>
            /\ cur'.segmentIndices = <<i>>
            /\ cur'.startIdx = i
            /\ cur'.peak = Seg(i).speedKmh]_vars

\* a candidate was just opened, after a segment that opened none
C7_Witness ==
  /\ pc = "loop"
  /\ i >= 2
  /\ cur # Null
  /\ cur.segmentIndices = <<i - 1>>
  /\ found = <<>>

ValidDt(k) == IsFinite(Seg(k).dtS) /\ Seg(k).dtS > 0

\* C8: no candidate and no wave has a member segment whose elapsed time is
\* undefined, zero or negative
C8_MembersHaveValidDt ==
  /\ cur # Null => \A k \in Members(cur) : ValidDt(k)
  /\ \A w \in SeqToSet(found) : \A k \in Members(w) : ValidDt(k)
  /\ \A w \in SeqToSet(detected) : \A k \in Members(w) : ValidDt(k)

\* with dropPct 100, a returned wave spans a segment without valid elapsed time
C8_Witness ==
  /\ pc = "done"
  /\ opts.dropPct = 100
  /\ \E w \in SeqToSet(detected) :
       \E k \in w.startIdx..w.endIdx : ~ValidDt(k) /\ k \notin Members(w)

\* drop >= dropPct for the active candidate at segment k
Decayed(k) ==
  IF cur.peak > 0
  THEN 100 * (cur.peak - Seg(k).speedKmh) >= opts.dropPct * cur.peak
  ELSE 100 >= opts.dropPct

\* C9: an under-threshold segment that has decayed adds its elapsed time to the
\* grace timer; when the timer reaches endGraceS the candidate closes, is
\* emitted iff it lasts minDurationS, and the detector is idle; a segment that
\* extends the candidate resets the timer; an active candidate never has a
\* timer at endGraceS
C9_EndByDecay ==
  [][(pc = "loop" /\ pc' = "loop" /\ i' = i + 1) =>
       /\ (cur # Null /\ ~IsOver(i) /\ Decayed(i)) =>
            IF timeUnderPeak + SafeDt(Seg(i)) >= opts.endGraceS
            THEN /\ cur' = Null
                 /\ timeUnderPeak' = 0
                 /\ found' = IF cur.durationS >= opts.minDurationS
                             THEN Append(found, cur) ELSE found
            ELSE /\ cur' = cur
                 /\ timeUnderPeak' = timeUnderPeak + SafeDt(Seg(i))
                 /\ found' = found
       /\ (cur' # Null /\ i \in Members(cur')) => timeUnderPeak' = 0
       /\ cur' # Null => timeUnderPeak' < opts.endGraceS]_vars

\* a candidate was closed by a grace timer that took two segments to fill
C9_Witness ==
  /\ pc = "loop"
  /\ opts.endGraceS = 2
  /\ cur = Null
  /\ Len(found) = 1
  /\ i >= 3

\* C10: an under-threshold segment that has not decayed is folded into the
\* candidate like an over-threshold one: index appended, distance and elapsed
\* time added, peak updated, grace timer reset
C10_TailFolded ==
  [][(pc = "loop" /\ pc' = "loop" /\ i' = i + 1
        /\ cur # Null /\ ~IsOver(i) /\ ~Decayed(i)) =>
       /\ cur'.segmentIndices = Append(cur.segmentIndices, i)
       /\ cur'.endIdx = i
       /\ cur'.startIdx = cur.startIdx
       /\ cur'.distM = cur.distM + Seg(i).distM
       /\ cur'.durationS = cur.durationS + SafeDt(Seg(i))
       /\ cur'.maxKmh = Max(cur.maxKmh, Seg(i).speedKmh)
       /\ cur'.peak = Max(cur.peak, Seg(i).speedKmh)
       /\ cur'.bearings = Append(cur.bearings, Seg(i).bearingDeg)
       /\ timeUnderPeak' = 0
       /\ found' = found]_vars

\* the last member of the active candidate is under its threshold
C10_Witness ==
  /\ pc = "loop"
  /\ i >= 2
  /\ cur # Null
  /\ cur.endIdx = i - 1
  /\ ~IsOver(i - 1)
  /\ cur.distM > Seg(cur.startIdx).distM

\* every emitted candidate ends before the next one starts
EmittedOnce(q) == \A a, b \in 1..Len(q) : a < b => q[a].endIdx < q[b].startIdx

\* C11: a candidate still active after the last segment is closed whatever
\* the grace timer and emitted iff it lasts minDurationS; in the loop a
\* candidate stays the same candidate until it closes, a closing candidate is
\* appended to the emitted ones or dropped, nothing else changes the emitted
\* ones, and no candidate is emitted twice
C11_ForceClose ==
  [][/\ (pc = "loop" /\ pc' = "done") =>
          /\ found' = IF cur # Null /\ cur.durationS >= opts.minDurationS
                      THEN Append(found, cur) ELSE found
          /\ EmittedOnce(found')
     /\ (pc = "loop" /\ pc' = "loop" /\ i' = i + 1) =>
          /\ cur = Null => found' = found
          /\ (cur # Null /\ cur' # Null) => (found' = found /\ cur'.startIdx = cur.startIdx)
          /\ (cur # Null /\ cur' = Null) => (found' = found \/ found' = Append(found, cur))
          /\ EmittedOnce(found')
          /\ cur' # Null => \A w \in SeqToSet(found') : w.endIdx < cur'.startIdx]_vars

\* the track ended on an active candidate whose grace timer was not running:
\* it was emitted after one that the grace rule had closed
C11_Witness ==
  /\ pc = "done"
  /\ cur # Null
  /\ timeUnderPeak = 0
  /\ Len(found) = 2
  /\ found[2] = cur

IsRamp == Len(segments) = 10 /\ SpeedsOf(segments) \in RampSpeeds

\* index of the first segment that reaches 10 km/h
FirstAtTen == CHOOSE k \in 0..9 : Seg(k).speedKmh >= 10 /\ \A j \in 0..(k - 1) : Seg(j).speedKmh < 10

PeakIndex == CHOOSE k \in 0..9 : Seg(k).speedKmh = 30

\* index of the first segment after the peak whose speed has dropped by 50%
\* of the peak or more; it lasts 1 s, the grace time
HalfPeakIndex ==
  CHOOSE k \in 0..9 :
    /\ k > PeakIndex /\ 2 * Seg(k).speedKmh <= 30
    /\ \A j \in (PeakIndex + 1)..(k - 1) : 2 * Seg(j).speedKmh > 30

\* C12 as stated: on a ramp with threshold 10, dropPct 50 and endGraceS 1
\* one wave is detected, from the first segment at 10 km/h or more to the
\* segment where the speed has stayed 1 s at half the peak or less: no later
\* segment is a member and no earlier one is left out
C12_EndsAtHalfPeak ==
  (pc = "done" /\ IsRamp) =>
    /\ Len(detected) = 1
    /\ detected[1].segmentIndices[1] = FirstAtTen
    /\ \A k \in Members(detected[1]) : k <= HalfPeakIndex
    /\ \A k \in FirstAtTen..(HalfPeakIndex - 1) : k \in Members(detected[1])

\* C12 amended: on a ramp one wave is detected; its members are the segments
\* at 10 km/h or more, from the first to the last; its peak is 30 km/h; the
\* segment after the last member is below 10 km/h, hence at less than half
\* the peak, and closes the wave after its 1 s
C12_EndsBelowThreshold ==
  (pc = "done" /\ IsRamp) =>
    /\ Len(detected) = 1
    /\ detected[1].segmentIndices[1] = FirstAtTen
    /\ Members(detected[1]) = { k \in 0..9 : Seg(k).speedKmh >= 10 }
    /\ Consecutive(detected[1].segmentIndices)
    /\ detected[1].maxKmh = 30
    /\ detected[1].durationS = Len(detected[1].segmentIndices)
    /\ Seg(detected[1].endIdx + 1).speedKmh < 10
    /\ 2 * Seg(detected[1].endIdx + 1).speedKmh < 30
    /\ cur = Null

\* a ramp whose wave has a member after the segment at half the peak
C12_Witness ==
  /\ pc = "done"
  /\ IsRamp
  /\ Len(detected) = 1
  /\ \E k \in Members(detected[1]) : k > HalfPeakIndex

\* C14: one segment of 10 s at 36 km/h, with threshold 15 and minDurationS
\* of 10 s at most, gives one wave whose only member is segment 0 and whose
\* duration is 10 s
C14_SingleSegment ==
  (/\ pc = "done"
   /\ Len(segments) = 1
   /\ Seg(0).dtS = 10 /\ Seg(0).speedKmh = 36 /\ Seg(0).distM = 3600
   /\ opts.baseThresholdKmh = 15
   /\ opts.minDurationS <= 10) =>
    /\ Len(detected) = 1
    /\ detected[1].segmentIndices = <<0>>
    /\ detected[1].startIdx = 0 /\ detected[1].endIdx = 0
    /\ detected[1].durationS = 10

\* the two-point track, detected with a minimum duration of exactly 10 s
C14_Witness ==
  /\ pc = "done"
  /\ points = TwoPointTrack
  /\ opts.minDurationS = 10
  /\ Len(detected) = 1

AllBelowFixed == \A k \in 0..(Len(segments) - 1) : Seg(k).speedKmh < opts.baseThresholdKmh

\* C13: when every segment is slower than the fixed threshold, no candidate
\* is opened and no wave is returned, in fixed and in adaptive mode
C13_AllBelowNoWave ==
  AllBelowFixed => (cur = Null /\ found = <<>> /\ detected = <<>>)

\* an adaptive run over a flat track at 18 km/h, below the threshold, each
\* segment at its local median
C13_Witness ==
  /\ pc = "done"
  /\ opts.useAdaptive
  /\ Len(segments) >= 2
  /\ \A k \in 0..(Len(segments) - 1) : Seg(k).speedKmh = 18 /\ ValidDt(k)
  /\ AllBelowFixed

\* speed >= thr for segment k: thr is the fixed threshold, or in adaptive
\* mode the larger of the fixed threshold and median + kSigma*std
AtThreshold(k) ==
  /\ Seg(k).speedKmh >= opts.baseThresholdKmh
  /\ opts.useAdaptive => GeMedianPlusKStd(Seg(k).speedKmh, LocalStat(k), opts.kSigma10)

\* C15: a segment counts as over (its elapsed time is added to timeOver) iff
\* its elapsed time is valid and its speed is at least the fixed threshold
\* and, in adaptive mode, at least median + kSigma*std; a segment slower than
\* the fixed threshold is never over, and the segment that opens a candidate
\* is at least as fast as the fixed threshold
C15_ThresholdApplied ==
  [][(pc = "loop" /\ pc' = "loop" /\ i' = i + 1) =>
       /\ (timeOver' > (IF cur = Null THEN 0 ELSE timeOver)) <=> (ValidDt(i) /\ AtThreshold(i))
       /\ Seg(i).speedKmh < opts.baseThresholdKmh =>
            timeOver' <= (IF cur = Null THEN 0 ELSE timeOver)
       /\ (cur = Null /\ cur' # Null) => Seg(i).speedKmh >= opts.baseThresholdKmh]_vars

\* in adaptive mode the last segment reached the fixed threshold but not
\* median + kSigma*std, and opened no candidate
C15_Witness ==
  /\ pc = "loop"
  /\ i >= 1
  /\ opts.useAdaptive
  /\ opts.baseThresholdKmh > 0
  /\ ValidDt(i - 1)
  /\ Seg(i - 1).speedKmh >= opts.baseThresholdKmh
  /\ ~GeMedianPlusKStd(Seg(i - 1).speedKmh, LocalStat(i - 1), opts.kSigma10)
  /\ cur = Null

\* the direction settings the page can pass: filter off, or on towards 0 or 180
DirectionChoices ==
  { getDirectionSettings([ui EXCEPT !.dirEnabled = e, !.direction = dr]) :
      e \in BOOLEAN, dr \in {0, 180} }

Enriched == [k \in 1..Len(detected) |-> enrichWave(detected[k], points, segments)]

\* ascending and apart: a wave ends before the next starts, with a segment in
\* between that is a member of neither
Apart(q) ==
  /\ \A k \in 1..Len(q) : q[k].startIdx <= q[k].endIdx
  /\ \A a, b \in 1..Len(q) : a < b => q[a].endIdx < q[b].startIdx
  /\ \A k \in 1..(Len(q) - 1) :
       \E j \in (q[k].endIdx + 1)..(q[k + 1].startIdx - 1) :
         j \notin Members(q[k]) /\ j \notin Members(q[k + 1])

\* C20: the emitted candidates, the returned waves, the enriched waves and
\* the waves the direction filter keeps are in track order, with a non-member
\* segment between consecutive ones
C20_WavesApart ==
  /\ Apart(found)
  /\ pc = "done" =>
       /\ Apart(detected)
       /\ Apart(Enriched)
       /\ \A ds \in DirectionChoices : Apart(DirectionFilter(Enriched, ds))

\* two waves returned and enriched; a direction filter keeps both, another one
C20_Witness ==
  /\ pc = "done"
  /\ Len(found) = 2
  /\ Len(Enriched) = 2
  /\ \E ds \in DirectionChoices : ds.enabled /\ Len(DirectionFilter(Enriched, ds)) = 1

\* the shorter of the two arcs between two bearings
MinArc(a, b) == Min((a - b) % 360, 360 - ((a - b) % 360))

\* the elements of q whose index is in K, in the order of q
Pick(q, K) ==
  [j \in 1..Cardinality(K) |->
     q[CHOOSE k \in K : Cardinality({ m \in K : m < k }) = j - 1]]

\* the enriched waves whose mean direction is defined and at most tolerance
\* away from the target
InDirection(ds) ==
  { k \in 1..Len(enriched) :
      /\ IsFinite(enriched[k].directionDeg)
      /\ MinArc(enriched[k].directionDeg, ds.direction) <= ds.tolerance }

\* C18: on a loaded page, with the filter enabled in the last run waves is
\* the sub-list of the enriched waves whose mean direction is defined and at
\* most tolerance away from the target, and rejectedCount the number left
\* out; with the filter disabled waves is the enriched list and rejectedCount
\* is 0; an empty list left by the filter is reported by another text than
\* no detected wave
C18_DirectionPostFilter ==
  enabled =>
    \A ds \in {tableOptions.directionSettings} :
      /\ ds.enabled => waves = Pick(enriched, InDirection(ds))
      /\ ds.enabled =>
           tableOptions.rejectedCount = Len(enriched) - Cardinality(InDirection(ds))
      /\ ~ds.enabled => (waves = enriched /\ tableOptions.rejectedCount = 0)
      /\ tableOptions.rawCount = Len(enriched)
      /\ (waves = <<>> /\ Len(enriched) > 0) =>
           (wavesEmpty.display = "block" /\ wavesEmpty.text = "noneInDirection"
              /\ wavesEmpty.ignored = Len(enriched))
      /\ Len(enriched) = 0 =>
           (wavesEmpty.display = "block" /\ wavesEmpty.text = "default")

\* the filter kept one of two detected waves
C18_Witness ==
  /\ ui.dirEnabled
  /\ Len(waves) = 1
  /\ tableOptions # Null
  /\ tableOptions.rawCount = 2
  /\ tableOptions.rejectedCount = 1
  /\ wavesEmpty.text = "outOfTolerance"

\* the stability filter removes candidate w for the maximum m
Unstable(w, m) ==
  /\ Len(w.bearings) >= 1
  /\ IsFinite(m)
  /\ ~CircularStdLe(w.bearings, m)

\* C16: the stability filter returns the candidates, in their order and as
\* they were, except those with at least one bearing sample whose circular
\* deviation is above a finite maximum; a candidate without samples stays,
\* as do all with a maximum that is not finite; samples all equal have
\* deviation 0 and pass every maximum, samples that cancel out pass none
C16_StabilityFilter ==
  (call.fn = "stableFilter" /\ ret # Null) =>
    /\ ret.value = Pick(call.found,
                        { k \in 1..Len(call.found) :
                            ~Unstable(call.found[k], call.dirStdMaxDeg) })
    /\ \A k \in 1..Len(call.found) :
         LET b    == call.found[k].bearings
             kept == \E j \in 1..Len(ret.value) : ret.value[j] = call.found[k]
         IN /\ b = <<>> => kept
            /\ ~IsFinite(call.dirStdMaxDeg) => kept
            /\ (b # <<>> /\ \A j \in 1..Len(b) : b[j] = b[1]) => kept
            /\ (IsFinite(call.dirStdMaxDeg) /\ b \in {<<0, 180>>, <<180, 0>>, <<0, 90, 180, 270>>})
                 => ~kept

\* of two candidates the filter removed the first, whose bearings are spread
\* over the circle, and kept the second, whose bearings are within 5 degrees
C16_Witness ==
  /\ call.fn = "stableFilter"
  /\ ret # Null
  /\ call.dirStdMaxDeg = 25
  /\ Len(call.found) = 2
  /\ call.found[1].bearings = <<0, 90, 180, 270>>
  /\ call.found[2].bearings = <<0, 5, 355>>
  /\ ret.value = <<call.found[2]>>

\* C17: angularDifference(a, b) is the shorter of the two arcs between a and
\* b taken modulo 360: it lies in [0,180], is the same for (b, a), is 0 iff a
\* and b are congruent modulo 360, and is 20 for 10 and 350
C17_AngularDifference ==
  (call.fn = "angularDifference" /\ ret # Null) =>
    /\ ret.value = MinArc(call.a, call.b)
    /\ ret.value >= 0 /\ ret.value <= 180
    /\ ret.value = angularDifference(call.b, call.a)
    /\ (ret.value = 0) <=> ((call.a - call.b) % 360 = 0)
    /\ (call.a = 10 /\ call.b = 350) => ret.value = 20

\* the difference of a negative bearing and one above 360, across north
C17_Witness ==
  /\ call.fn = "angularDifference"
  /\ ret # Null
  /\ call.a = -10 /\ call.b = 370
  /\ ret.value = 20

\* C19: the label is that of a wave with the highest peak of the list, of
\* the greatest distance among the waves with that peak, and the earliest of
\* these
C19_BestWave ==
  (call.fn = "bestWaveLabel" /\ ret # Null) =>
    LET ws   == call.ws
        top  == { k \in 1..Len(ws) : \A j \in 1..Len(ws) : ws[j].maxKmh <= ws[k].maxKmh }
        far  == { k \in top : \A j \in top : ws[j].distM <= ws[k].distM }
        best == CHOOSE k \in far : \A j \in far : k <= j
    IN /\ far # {}
       /\ ret.value = [distM |-> ws[best].distM, durationS |-> ws[best].durationS,
                       maxKmh |-> ws[best].maxKmh]

\* three waves: the second and the third tie on peak and distance, above the
\* first; the label is that of the second
C19_Witness ==
  /\ call.fn = "bestWaveLabel"
  /\ ret # Null
  /\ Len(call.ws) = 3
  /\ call.ws[1].maxKmh < call.ws[2].maxKmh
  /\ call.ws[2].maxKmh = call.ws[3].maxKmh
  /\ call.ws[2].distM = call.ws[3].distM
  /\ ret.value.durationS = 2

\* C21: an input inside its range reaches the detector unchanged: threshold,
\* minDuration, kSigma and endGrace from 0 up, windowSeconds above 0, dropPct
\* in [0,100], tolerance and dirStdMax in [0,180]
C21_InRangePassedThrough ==
  (call.fn = "RunOptions" /\ ret # Null) =>
    LET u == call.ui
        o == ret.value
    IN /\ (IsFinite(u.threshold) /\ u.threshold >= 0) => o.baseThresholdKmh = u.threshold
       /\ (IsFinite(u.minDuration) /\ u.minDuration >= 0) => o.minDurationS = u.minDuration
       /\ (IsFinite(u.winSeconds) /\ u.winSeconds > 0) => o.winSec = u.winSeconds
       /\ (IsFinite(u.kSigma10) /\ u.kSigma10 >= 0) => o.kSigma10 = u.kSigma10
       /\ (IsFinite(u.dropPct) /\ u.dropPct >= 0 /\ u.dropPct <= 100) => o.dropPct = u.dropPct
       /\ (IsFinite(u.endGrace) /\ u.endGrace >= 0) => o.endGraceS = u.endGrace
       /\ (IsFinite(u.tolerance) /\ u.tolerance >= 0 /\ u.tolerance <= 180) =>
            ret.directionSettings.tolerance = u.tolerance
       /\ (IsFinite(u.stdMax) /\ u.stdMax >= 0 /\ u.stdMax <= 180) => o.dirStdMaxDeg = u.stdMax

\* elapsed time accumulated from segment j through segment k of the call,
\* a missing elapsed time counting as 0
Accumulated(j, k) == SumSeq([m \in 1..(k - j + 1) |-> FiniteDt(call.segments[j + m - 1 + 1])])

\* the segments of the trailing time window of index k, and k itself
TrailingWindow(k) == { j \in 0..k : j = k \/ Accumulated(j, k) <= call.winSec }

\* the segments the loop used for the index it has just handled
UsedWindow == ret.left..(ret.right - 1)

NoNegativeDt(k) == \A j \in 0..k : FiniteDt(call.segments[j + 1]) >= 0

\* C22 as stated: one statistic per index, and for every sequence of elapsed
\* times the window of an index is its trailing time window
C22_TrailingWindow ==
  (call.fn = "computeLocalStats" /\ ret # Null) =>
    /\ Len(ret.localStats) = ret.right
    /\ ret.right = Len(call.segments) =>
         ret.localStats = computeLocalStats(call.segments, call.winSec)
    /\ UsedWindow = TrailingWindow(ret.right - 1)

\* C22 amended: one statistic per index for every sequence of elapsed times;
\* the window of an index is a run of segments that ends with it, over whose
\* speeds the statistic is computed; it is the trailing time window of the
\* index when no elapsed time up to the index is negative
C22_TrailingWindowForward ==
  (call.fn = "computeLocalStats" /\ ret # Null) =>
    /\ Len(ret.localStats) = ret.right
    /\ ret.right = Len(call.segments) =>
         ret.localStats = computeLocalStats(call.segments, call.winSec)
    /\ ret.left >= 0 /\ ret.left <= ret.right - 1
    /\ ret.localStats[ret.right] =
         WindowStat([k \in 1..(ret.right - ret.left) |-> call.segments[ret.left + k].speedKmh])
    /\ NoNegativeDt(ret.right - 1) => UsedWindow = TrailingWindow(ret.right - 1)

\* the window of the third segment has lost the first segment and holds a
\* segment without elapsed time; no elapsed time is negative
C22_Witness ==
  /\ call.fn = "computeLocalStats"
  /\ ret # Null
  /\ ret.right = 3
  /\ ret.left = 1
  /\ NoNegativeDt(2)
  /\ \E j \in 1..2 : ~IsFinite(call.segments[j + 1].dtS)
  /\ Accumulated(1, 2) = call.winSec

\* the waves of the full pipeline on the loaded track with the inputs as shown
PipelineWaves ==
  runWaveDetection(ui, autoThreshold, points, segments, wavesEmpty, tableOptions, enriched).waves

\* C23: on a loaded page whose threshold input shows a number, whichever
\* handler ran last (a parameter change, a load, a detect click), waves is
\* the result of the pipeline on the loaded segments with the values shown
C23_WavesCurrent ==
  (enabled /\ IsFinite(ui.threshold) /\ Len(points) = Len(segments) + 1) =>
    waves = PipelineWaves

\* C24: the clear action (the step that disables the controls) empties
\* points, segments and waves and sets stats and autoThreshold to null; as
\* long as the controls stay disabled segments and waves stay empty, stats
\* and autoThreshold null, and a detection run would leave waves empty; the
\* load that enables the controls again takes points from its file alone and
\* segments and stats from these points
C24_ClearThenLoad ==
  [][/\ (enabled /\ ~enabled') =>
          (points' = <<>> /\ pending' = pending /\ wavesEmpty' = resetWaveUI)
     /\ ~enabled' =>
          /\ segments' = <<>> /\ waves' = <<>> /\ stats' = Null /\ autoThreshold' = NaN
          /\ runWaveDetection(ui', autoThreshold', points', segments',
                              wavesEmpty', tableOptions', enriched').waves = <<>>
     /\ (~enabled /\ enabled') =>
          \E k \in 1..Len(pending) :
            /\ ~LoadFails(pending[k])
            /\ points' = pending[k].pts
            /\ segments' = ComputeSegments(pending[k].pts)
            /\ Len(segments') = Len(points') - 1
            /\ stats' = ComputeStats(segments')]_vars

\* a page that was cleared after its inputs had been changed, with the load
\* of a track underway
C24_Witness ==
  /\ ~enabled
  /\ points = <<>>
  /\ ui.minDuration = 0
  /\ ~ui.useAdaptive
  /\ Len(pending) = 1
  /\ ~LoadFails(pending[1])

\* C25: while a load is in flight no other handler runs: the next step of the
\* page is the completion of that load, so at most one load is in flight and
\* nothing is issued between its start and its end
C25_LoadCompletesFirst ==
  [][Len(pending) > 0 =>
       /\ Len(pending) = 1
       /\ pending' = <<>>
       /\ \E k \in 1..Len(pending) : LoadResume(k)]_vars

\* the elapsed time from point k to point k+1 of the call is undefined, zero
\* or negative
NoElapsedTime(k) ==
  \/ ~IsFinite(call.points[k].time)
  \/ ~IsFinite(call.points[k + 1].time)
  \/ call.points[k + 1].time - call.points[k].time <= 0

\* C26: computeSegmentsAndStats makes one segment less than there are points;
\* each segment links a point to the next one; no speed is negative, and a
\* speed is 0 exactly when the elapsed time is undefined, zero or negative,
\* or the distance is 0
C26_SegmentsOfPoints ==
  (call.fn = "computeSegmentsAndStats" /\ ret # Null) =>
    /\ Len(ret.segments) = Len(call.points) - 1
    /\ \A k \in 1..Len(ret.segments) :
         /\ ret.segments[k].a = call.points[k].lat
         /\ ret.segments[k].b = call.points[k + 1].lat
         /\ ret.segments[k].distM = Abs(call.points[k + 1].lat - call.points[k].lat)
         /\ ret.segments[k].speedKmh >= 0
         /\ (ret.segments[k].speedKmh = 0) <=>
              (NoElapsedTime(k) \/ ret.segments[k].distM = 0)

\* a track with a moving segment, a segment of negative elapsed time and a
\* segment that ends on a point without time
C26_Witness ==
  /\ call.fn = "computeSegmentsAndStats"
  /\ ret # Null
  /\ Len(ret.segments) = 3
  /\ ret.segments[1].speedKmh = 36
  /\ ret.segments[2].dtS = -1 /\ ret.segments[2].distM > 0
  /\ ret.segments[3].dtS = NaN /\ ret.segments[3].distM > 0

\* the candidate at position k of the call is in the list the filter returned
KeptByFilter(k) == \E j \in 1..Len(ret.value) : ret.value[j] = call.found[k]

\* C27: with a maximum of 25 degrees the stability filter keeps a candidate
\* whose bearings are 0, 5 and 355 degrees and removes one whose bearings are
\* 0, 90, 180 and 270 degrees
C27_ScenarioE ==
  (call.fn = "stableFilter" /\ ret # Null /\ call.dirStdMaxDeg = 25) =>
    \A k \in 1..Len(call.found) :
      /\ call.found[k].bearings = <<0, 5, 355>> => KeptByFilter(k)
      /\ call.found[k].bearings = <<0, 90, 180, 270>> => ~KeptByFilter(k)

\* the filter was given the candidate of bearings 0, 5, 355 and then the one
\* of bearings 0, 90, 180, 270, and returned the first alone
C27_Witness ==
  /\ call.fn = "stableFilter"
  /\ ret # Null
  /\ call.dirStdMaxDeg = 25
  /\ Len(call.found) = 2
  /\ call.found[1].bearings = <<0, 5, 355>>
  /\ call.found[2].bearings = <<0, 90, 180, 270>>
  /\ ret.value = <<call.found[1]>>

\* C28: in every state of the page there is one segment less than there are
\* points (none without points), and every wave spans segments that exist,
\* so that its points, from startIdx to endIdx + 1, exist
C28_SlicesExist ==
  /\ Len(segments) = Max(0, Len(points) - 1)
  /\ \A w \in SeqToSet(waves) :
       /\ 0 <= w.startIdx /\ w.startIdx <= w.endIdx /\ w.endIdx <= Len(segments) - 1
       /\ Len(Slice(points, w.startIdx, w.endIdx + 2)) = w.endIdx - w.startIdx + 2

\* the smallest and the largest member index of the candidate of the call
FirstMember == CHOOSE m \in Members(call.w) : \A n \in Members(call.w) : m <= n

LastMember == CHOOSE m \in Members(call.w) : \A n \in Members(call.w) : n <= m

\* what enrichWave sets whether the map is ready or not: indices, startIdx,
\* endIdx and the points of the wave, the candidate's sums left as they were
EnrichedRange ==
  LET e    == ret.value
      last == Len(call.segments) - 1
  IN /\ e.indices = [k \in 1..(LastMember - FirstMember + 1) |-> FirstMember + k - 1]
     /\ e.startIdx = clamp(FirstMember, 0, last)
     /\ e.endIdx = clamp(LastMember, 0, last)
     /\ e.slice = [k \in 1..(e.endIdx - e.startIdx + 2) |-> call.points[e.startIdx + k]]
     /\ e.distM = call.w.distM
     /\ e.durationS = call.w.durationS
     /\ e.maxKmh = call.w.maxKmh

\* the start point is the first point of the slice, the midpoint the point
\* at floor(length/2)
MarkersOnSlice ==
  /\ ret.markers.startPoint = [lat |-> ret.value.slice[1].lat]
  /\ ret.markers.midPoint = [lat |-> ret.value.slice[(Len(ret.value.slice) \div 2) + 1].lat]

\* C29 as stated: enrichWave sets the range, the slice, the start point and
\* the midpoint, and keeps distM, durationS and maxKmh
C29_EnrichSetsAll ==
  (call.fn = "enrichWave" /\ ret # Null) => (EnrichedRange /\ MarkersOnSlice)

\* C29 amended: enrichWave sets the range and the slice and keeps distM,
\* durationS and maxKmh; with the map ready the start point is the first
\* point of the slice and the midpoint the point at floor(length/2), without
\* the map both are null
C29_EnrichMarkersNeedMap ==
  (call.fn = "enrichWave" /\ ret # Null) =>
    /\ EnrichedRange
    /\ call.canLeaf => MarkersOnSlice
    /\ ~call.canLeaf => (ret.markers.startPoint = Null /\ ret.markers.midPoint = Null)

\* with the map ready, a wave whose members skip a segment was enriched: its
\* indices fill the gap and its slice has an even number of points
C29_Witness ==
  /\ call.fn = "enrichWave"
  /\ ret # Null
  /\ call.canLeaf
  /\ Len(ret.value.indices) > Len(call.w.segmentIndices)
  /\ Len(ret.value.slice) = 4
  /\ ret.markers.midPoint = [lat |-> call.points[ret.value.startIdx + 3].lat]

\* C30: the mean direction of an enriched wave is the circular mean of the
\* bearings the segmenter collected for the candidate, and the bearing from
\* the first to the last point of the slice iff it collected none
C30_DirectionOfCollected ==
  (call.fn = "enrichWave" /\ ret # Null) =>
    ret.value.directionDeg =
      IF Len(call.w.bearings) > 0
      THEN CircularMeanDeg(call.w.bearings)
      ELSE bearingDegrees(ret.value.slice[1], ret.value.slice[Len(ret.value.slice)])

----------------------------------------------------------------------------
(* C31 *)

\* the left pointer after the iteration of the loop in progress, before the
\* first iteration the initial one
LeftOf(r) == IF r = Null THEN LocalStatsInit.left ELSE r.left

\* C31: after every iteration of the loop of computeLocalStats the window
\* holds the current segment (0 <= left <= right), the left pointer has not
\* moved back, it has advanced at most segments.length - 1 times since the
\* call began, and a window of more than one segment spans at most winSec
C31_WindowInvariants ==
  [][call.fn = "computeLocalStats" =>
       /\ ret'.left >= 0 /\ ret'.left <= ret'.right - 1
       /\ ret'.left >= LeftOf(ret)
       /\ ret'.left <= Len(call.segments) - 1
       /\ ret'.timeSpan = Accumulated(ret'.left, ret'.right - 1)
       /\ ret'.left < ret'.right - 1 => Accumulated(ret'.left, ret'.right - 1) <= call.winSec]_vars

\* the third iteration has advanced the left pointer by one, and the window
\* of two segments it leaves spans winSec exactly
C31_Witness ==
  /\ call.fn = "computeLocalStats"
  /\ ret # Null
  /\ ret.right = 3
  /\ ret.left = 1
  /\ Accumulated(0, 2) > call.winSec
  /\ Accumulated(1, 2) = call.winSec

----------------------------------------------------------------------------
(* C32 *)

\* the speeds of the window of the index the loop has just handled
WindowSpeeds == [k \in 1..(ret.right - ret.left) |-> call.segments[ret.left + k].speedKmh]

\* the k-th smallest of the values of sp
KthSmallest(sp, k) ==
  CHOOSE v \in { sp[j] : j \in 1..Len(sp) } :
    /\ Cardinality({ j \in 1..Len(sp) : sp[j] < v }) < k
    /\ Cardinality({ j \in 1..Len(sp) : sp[j] <= v }) >= k

\* twice the middle value of sp, the two middle values added when there are two
TwiceMiddle(sp) ==
  IF Len(sp) % 2 = 1 THEN 2 * KthSmallest(sp, (Len(sp) + 1) \div 2)
  ELSE KthSmallest(sp, Len(sp) \div 2) + KthSmallest(sp, Len(sp) \div 2 + 1)

\* C32: the median of an index is the middle value of the speeds of its
\* window in order, the mean of the two middle values of an even window; the
\* standard deviation of a window of one is 0; a window without a finite
\* speed has median 0 and deviation 0; with winSec <= 0 computeLocalStats
\* gives no statistic and detectWavesV2 compares every segment with the fixed
\* threshold
C32_MedianAndFallback ==
  /\ (call.fn = "computeLocalStats" /\ ret # Null) =>
       LET st == ret.localStats[ret.right]
       IN /\ st.med2 = TwiceMiddle(WindowSpeeds)
          /\ Len(WindowSpeeds) = 1 => st.varNum = 0
          /\ (\A k \in 1..Len(WindowSpeeds) : ~IsFinite(WindowSpeeds[k])) =>
               (st.med2 = 0 /\ st.varNum = 0)
  /\ (call.fn = "detectWavesV2" /\ ret # Null /\ call.options.winSec <= 0) =>
       /\ \A k \in 1..Len(call.segments) : ret.local[k] = Null
       /\ ret.over = { k \in 0..(Len(call.segments) - 1) :
                         /\ call.segments[k + 1].speedKmh >= call.options.baseThresholdKmh
                         /\ SafeDt(call.segments[k + 1]) > 0 }
       /\ ret.value = detectWavesV2(call.segments, [call.options EXCEPT !.useAdaptive = FALSE])

\* a window of two segments of different speeds: the median lies between them
C32_Witness ==
  /\ call.fn = "computeLocalStats"
  /\ ret # Null
  /\ ret.right - ret.left = 2
  /\ WindowSpeeds[1] # WindowSpeeds[2]
  /\ ret.localStats[ret.right].med2 = WindowSpeeds[1] + WindowSpeeds[2]

----------------------------------------------------------------------------
(* C33 *)

\* the k-th and the next wave of the first loop are returned as one wave
Joined(k) ==
  \E m \in 1..Len(ret.value) :
    /\ ret.value[m].startIdx <= ret.found[k].startIdx
    /\ ret.value[m].endIdx >= ret.found[k + 1].endIdx

\* exactly one segment lies between the k-th and the next wave of the first
\* loop, it is below the threshold and its elapsed time is at most 1 s; the
\* next wave starts one segment before its first segment over the threshold
ShortLull(k) ==
  LET g == ret.found[k].endIdx + 1
  IN /\ ret.found[k + 1].startIdx = g
     /\ call.segments[g + 1].speedKmh < call.thresholdKmh
     /\ IsFinite(call.segments[g + 1].dtS)
     /\ call.segments[g + 1].dtS <= 1

\* C33: detectWaves returns two consecutive waves of its first loop as one
\* wave exactly when one segment lies between them, below the threshold and
\* of at most 1 s; waves further apart are returned as separate waves
C33_MergeShortLull ==
  (call.fn = "detectWaves" /\ ret # Null) =>
    \A k \in 1..(Len(ret.found) - 1) : Joined(k) <=> ShortLull(k)

----------------------------------------------------------------------------
(* C34 *)

\* C34: every segment from startIdx to endIdx of a wave detectWaves returns
\* has a speed of at least the threshold and a positive, finite elapsed time
C34_RunAboveThreshold ==
  (call.fn = "detectWaves" /\ ret # Null) =>
    \A m \in 1..Len(ret.value) :
      \A k \in ret.value[m].startIdx..ret.value[m].endIdx :
        /\ call.segments[k + 1].speedKmh >= call.thresholdKmh
        /\ IsFinite(call.segments[k + 1].dtS)
        /\ call.segments[k + 1].dtS > 0

----------------------------------------------------------------------------
(* C35 *)

\* the accumulators of w agree with its member segments
Accumulates(w) ==
  LET m == w.segmentIndices
  IN /\ Len(m) > 0
     /\ \A k \in 1..Len(m) : IsFinite(Seg(m[k]).dtS)
     /\ w.durationS = SumSeq([k \in 1..Len(m) |-> Seg(m[k]).dtS])
     /\ w.distM = SumSeq([k \in 1..Len(m) |->
                            IF IsFinite(Seg(m[k]).distM) THEN Seg(m[k]).distM ELSE 0])
     /\ w.maxKmh = w.peak
     /\ \A k \in 1..Len(m) : Seg(m[k]).speedKmh <= w.maxKmh
     /\ \E k \in 1..Len(m) : Seg(m[k]).speedKmh = w.maxKmh
     /\ w.startIdx = m[1]
     /\ w.endIdx = m[Len(m)]

\* C35: for the active candidate after every iteration and for every emitted
\* wave, durationS is the sum of the elapsed times of the members, distM the
\* sum of their finite distances, maxKmh = peak = their greatest speed,
\* startIdx the first member and endIdx the last
C35_Accumulators ==
  /\ cur # Null => Accumulates(cur)
  /\ \A w \in SeqToSet(found) : Accumulates(w)
  /\ \A w \in SeqToSet(detected) : Accumulates(w)

\* a returned wave of two members, the second slower than the first and
\* under the threshold
C35_Witness ==
  /\ pc = "done"
  /\ \E w \in SeqToSet(detected) :
       /\ Len(w.segmentIndices) = 2
       /\ Seg(w.segmentIndices[2]).speedKmh < Seg(w.segmentIndices[1]).speedKmh
       /\ Seg(w.segmentIndices[2]).speedKmh < opts.baseThresholdKmh
       /\ w.maxKmh = Seg(w.segmentIndices[1]).speedKmh

----------------------------------------------------------------------------
(* C36 *)

\* C36: a wave detectWavesV2 returns has durationS > 0, with minDurationS 0
\* as well, and the average speed enrichWave gives it is
\* distM/durationS*3.6, a number
C36_PositiveDuration ==
  /\ (call.fn = "detectWavesV2" /\ ret # Null) =>
       \A k \in 1..Len(ret.value) : ret.value[k].durationS > 0
  /\ call.fn = "enrichWave" =>
       /\ call.w.durationS > 0
       /\ ret # Null =>
            /\ ret.value.avgDen > 0
            /\ ret.value.avgNum = call.w.distM
            /\ ret.value.avgDen = 10 * call.w.durationS

\* a wave of one segment of 1 s, detected with minDurationS 0, is enriched
C36_Witness ==
  /\ call.fn = "enrichWave"
  /\ ret # Null
  /\ Len(call.w.segmentIndices) = 1
  /\ call.w.durationS = 1
  /\ ret.value.avgDen = 10

----------------------------------------------------------------------------
(* C37 *)

\* C37: the peak value enrichWave finds over the segments from startIdx to
\* endIdx is the maxKmh the detector accumulated for the wave, and the peak
\* index is a member segment of the wave
C37_PeakIsMaxKmh ==
  (call.fn = "enrichWave" /\ ret # Null) =>
    /\ ret.value.peakVal = call.w.maxKmh
    /\ ret.value.peakIdx \in Members(call.w)

----------------------------------------------------------------------------
(* C38 *)

\* the statistics computeSegmentsAndStats gives the segments of the call
TrackStats == ComputeStats(call.segments)

\* C38: the waves a detector returns for the segments of a loaded track are
\* bounded by the statistics of the track: maxKmh of each wave by maxKmh, the
\* sum of durationS by durationS and the sum of distM by distM
C38_WavesWithinStats ==
  (call.fn \in {"detectWavesV2", "detectWaves"} /\ ret # Null) =>
    /\ \A k \in 1..Len(ret.value) : ret.value[k].maxKmh <= TrackStats.maxKmh
    /\ SumSeq([k \in 1..Len(ret.value) |-> ret.value[k].durationS]) <= TrackStats.durationS
    /\ SumSeq([k \in 1..Len(ret.value) |-> ret.value[k].distM]) <= TrackStats.distM

\* detectWaves has merged two waves over a segment of 1 s between them, and
\* the wave it returns lasts as long as the track
C38_Witness ==
  /\ call.fn = "detectWaves"
  /\ ret # Null
  /\ Len(ret.found) = 2
  /\ Len(ret.value) = 1
  /\ ret.value[1].durationS = TrackStats.durationS
  /\ ret.value[1].durationS > ret.found[1].durationS + ret.found[2].durationS

====
